---------------------------- MODULE Spec2Model ----------------------------
(***************************************************************************)
(* State-machine model of the MedBill Analyzer backend (src/backend):      *)
(* the session store and request handlers of main.py, the chat turn of     *)
(* conversation.py, the Discrepancy Detection Engine of discrepancy.py and  *)
(* the reference-price resolver of database.py.                            *)
(*                                                                         *)
(* Conventions.                                                            *)
(*  - Money is written as an integer number of cents; the arithmetic of    *)
(*    the checks is that of the doubles the program computes with.         *)
(*  - A Python string is a sequence of one-character strings.              *)
(*  - A value read from a JSON object is a record [st, v]: st = "val" for  *)
(*    a present value v, "null" for JSON null (Python None), "missing"     *)
(*    for an absent key.                                                   *)
(***************************************************************************)
EXTENDS Integers, Sequences, FiniteSets, TLC

VARIABLES
    bill_store,        \* main.py:62   session id -> session record
    session_counter,   \* main.py:63
    cache,             \* database.py:10  _reference_prices_cache
    db_mode,           \* state of data.db as get_fee_info finds it
    json_mode,         \* state of reference_prices.json as the loader finds it
    pc,                \* per request task: position in its handler
    loc,               \* per request task: the handler's local variables
    loop,              \* the task the event loop is running (0: none)
    response,          \* the last response sent (NoResponse during a turn)
    confirmed,         \* sessions on which confirm_bill has stored a bill
    call               \* a direct call of a function of discrepancy.py or
                       \* database.py: its name, argument and result

vars == <<bill_store, session_counter, cache, db_mode, json_mode,
          pc, loc, loop, response, confirmed, call>>

---------------------------------------------------------------------------
(* Bounds of the model.                                                    *)

\* The size of the store: two for every session created plus one for every
\* chat entry stored.
MaxSize == 5
\* The requests that can be in flight at once.
NumTasks == 2

Tasks == 1..NumTasks

---------------------------------------------------------------------------
(* JSON values.                                                            *)

Val(x) == [st |-> "val", v |-> x]
NullN == [st |-> "null", v |-> 0]
MissingN == [st |-> "missing", v |-> 0]
NullS == [st |-> "null", v |-> <<>>]
MissingS == [st |-> "missing", v |-> <<>>]
NullD == [st |-> "null", v |-> ""]
MissingD == [st |-> "missing", v |-> ""]

\* dict.get(key): an absent key reads as None.
Get(o, null) == IF o.st = "val" THEN o ELSE null

\* dict.get(key, default): only an absent key reads as the default.
GetDefault(o, default) == IF o.st = "missing" THEN Val(default) ELSE o

\* Python truthiness of a string or number read from JSON.
TruthyS(o) == o.st = "val" /\ o.v # <<>>
TruthyN(o) == o.st = "val" /\ o.v # 0

---------------------------------------------------------------------------
(* Strings.                                                                *)

Upper(c) ==
    IF c = "a" THEN "A" ELSE IF c = "b" THEN "B" ELSE IF c = "e" THEN "E" ELSE c
Lower(c) ==
    IF c = "A" THEN "a" ELSE IF c = "B" THEN "b" ELSE IF c = "E" THEN "e" ELSE c

\* The characters str.strip() removes: the blank and the other whitespace,
\* of which the tab stands for all.
Tab == "\t"
Whitespace == {" ", Tab}

MapStr(F(_), s) == [i \in 1..Len(s) |-> F(s[i])]

RECURSIVE LStrip(_)
LStrip(s) == IF s # <<>> /\ Head(s) \in Whitespace THEN LStrip(Tail(s)) ELSE s

RECURSIVE RStrip(_)
RStrip(s) ==
    IF s # <<>> /\ s[Len(s)] \in Whitespace
    THEN RStrip(SubSeq(s, 1, Len(s) - 1)) ELSE s

\* str.strip()
Strip(s) == RStrip(LStrip(s))

\* str.replace(c, "")
Remove(s, c) == SelectSeq(s, LAMBDA x : x # c)

\* s[:n]
Take(s, n) == SubSeq(s, 1, IF Len(s) < n THEN Len(s) ELSE n)

CodeLen == 5

normalize_code(code) ==
    IF ~TruthyS(code) THEN <<>>
    ELSE LET normalized ==
                 MapStr(Upper, Remove(Remove(Remove(Strip(code.v), "-"), " "), "."))
         IN  IF Len(normalized) > CodeLen THEN Take(normalized, CodeLen)
             ELSE normalized

---------------------------------------------------------------------------
(* Python floats.  An amount of a bill or of the reference data is written  *)
(* as a whole number of cents c and read by the program as the double       *)
(* nearest to c / 100; the checks add, subtract, scale and compare these    *)
(* doubles.  A double is kept exactly, as [n, k, e] for the value           *)
(*     n / Den  +  e / (Den * 2^k)                                          *)
(* n is the decimal amount in half cents and e the binary rounding error,   *)
(* in units of 1 / (Den * 2^k); 2^k itself is never computed.               *)

\* Half cents per unit.
Den == 200
\* The fraction bits of a double.
MantissaBits == 52

Float(n, k, e) == [n |-> n, k |-> k, e |-> e]

RECURSIVE PowMod(_, _)
\* 2^k modulo m
PowMod(k, m) == IF k = 0 THEN 1 % m ELSE (2 * PowMod(k - 1, m)) % m

\* (a * 2^k) modulo m
Residue(a, k, m) == ((a % m) * PowMod(k, m)) % m

RECURSIVE BinadeUp(_, _)
BinadeUp(a, j) == IF Den * 2^(j + 1) <= a THEN BinadeUp(a, j + 1) ELSE j

RECURSIVE BinadeDown(_, _)
BinadeDown(a, m) == IF a * 2^m < Den THEN BinadeDown(a, m + 1) ELSE m

\* floor(log2(a / Den)) for a > 0, and whether a / Den is a power of two.
Binade(a) == IF a >= Den THEN BinadeUp(a, 0) ELSE -BinadeDown(a, 0)
IsPowerOfTwo(a) ==
    IF a >= Den THEN a = Den * 2^BinadeUp(a, 0) ELSE a * 2^BinadeDown(a, 0) = Den

\* The k of the doubles around a / Den + err for a > 0 and a tiny err: the
\* spacing of the doubles there is 2^-k.
Spacing(a, err) ==
    MantissaBits - (IF IsPowerOfTwo(a) /\ err < 0 THEN Binade(a) - 1 ELSE Binade(a))

\* Round to nearest, ties to even: the multiple next to q + rem / d, as an
\* offset from q; parity is that of the multiple at offset 0.
Nearest(q, rem, d, parity) ==
    IF 2 * rem < d THEN q
    ELSE IF 2 * rem > d THEN q + 1
    ELSE IF (parity + q + 2) % 2 = 0 THEN q ELSE q + 1

\* The double at spacing 2^-k nearest to sign * (a / Den) + ..., where the
\* value lies r / Den above a multiple of 2^-k of the given parity, plus
\* f / d of the spacing in all.
RoundAt(n, sign, k, r, parity, f, d) ==
    Float(n, k, sign * (Den * Nearest(f \div d, f % d, d, parity) - r))

\* The value sign * (a / Den + err / (Den * 2^(k + shift))) rounded to the
\* doubles of spacing 2^-k.
RoundTo(n, sign, a, err, k, shift) ==
    RoundAt(n, sign, k, Residue(a, k, Den),
            (Residue(a, k, 2 * Den) - Residue(a, k, Den)) \div Den,
            Residue(a, k, Den) * 2^shift + err, Den * 2^shift)

Sign(n) == IF n < 0 THEN -1 ELSE 1
Magnitude(n) == IF n < 0 THEN -n ELSE n

\* The double nearest to n / Den + e / (Den * 2^k), a multiple of 2^-k: the
\* result of an operation on doubles whose exact result it is.
RoundExact(n, k, e) ==
    IF n = 0 \/ Spacing(Magnitude(n), Sign(n) * e) >= k THEN Float(n, k, e)
    ELSE RoundTo(n, Sign(n), Magnitude(n), Sign(n) * e,
                 Spacing(Magnitude(n), Sign(n) * e),
                 k - Spacing(Magnitude(n), Sign(n) * e))

\* float of the decimal literal c / 100.
FromCents(c) ==
    IF c = 0 THEN Float(0, 0, 0)
    ELSE RoundTo(2 * c, Sign(c), Magnitude(2 * c), 0, Spacing(Magnitude(2 * c), 0), 0)

Scale(e, shift) == IF e = 0 THEN 0 ELSE e * 2^shift
MaxK(x, y) == IF x.k > y.k THEN x.k ELSE y.k

\* x + y
FloatAdd(x, y) ==
    RoundExact(x.n + y.n, MaxK(x, y),
               Scale(x.e, MaxK(x, y) - x.k) + Scale(y.e, MaxK(x, y) - y.k))

\* x - y
FloatSub(x, y) ==
    RoundExact(x.n - y.n, MaxK(x, y),
               Scale(x.e, MaxK(x, y) - x.k) - Scale(y.e, MaxK(x, y) - y.k))

\* x * 1.5, for x the double of an amount in cents
FloatTimesOneAndHalf(x) == RoundExact((3 * x.n) \div 2, x.k + 1, 3 * x.e)

\* x > y
FloatGreater(x, y) ==
    IF x.n # y.n THEN x.n > y.n
    ELSE Scale(x.e, MaxK(x, y) - x.k) > Scale(y.e, MaxK(x, y) - y.k)

\* abs(x)
FloatAbs(x) ==
    IF FloatGreater(Float(0, 0, 0), x) THEN Float(-x.n, x.k, -x.e) ELSE x

\* The amount of a double to the cent.
Cents(x) == x.n \div 2

---------------------------------------------------------------------------
(* Reference price data: the contents of data.db (table fee_schedule) and   *)
(* of reference_prices.json.  The program only reads them.                  *)

CodeA1 == <<"A", "1">>
CodeB2 == <<"B", "2">>
CodeC3 == <<"C", "3">>
CodeD4 == <<"D", "4">>
CodeE5 == <<"E", "5">>

fee_schedule ==
    { [hcpcs |-> CodeA1, region |-> 1, non_fac_fee |-> 8000, fac_fee |-> 10000],
      [hcpcs |-> CodeA1, region |-> 2, non_fac_fee |-> 0, fac_fee |-> 12000],
      [hcpcs |-> CodeB2, region |-> 1, non_fac_fee |-> 0, fac_fee |-> 0],
      [hcpcs |-> CodeE5, region |-> 1, non_fac_fee |-> 0, fac_fee |-> 0] }

reference_prices_json ==
    (CodeA1 :> [description |-> "Visit", avg_price |-> 100, high_price |-> 200])
    @@ (CodeB2 :> [description |-> "Lab", avg_price |-> 3000, high_price |-> 5000])
    @@ (CodeC3 :> [description |-> "Scan", avg_price |-> 0, high_price |-> 0])
    @@ (CodeD4 :> [description |-> "Shot", avg_price |-> 100, high_price |-> 116])

EmptyDict == [c \in {} |-> 0]

DbModes == {"ok", "no_table", "error"}
JsonModes == {"ok", "absent", "corrupt"}

---------------------------------------------------------------------------
(* database.py: the resolver.                                              *)

NotFound == [found |-> FALSE, description |-> "", avg_price |-> 0, high_price |-> 0]

SetMax(S) == CHOOSE x \in S : \A y \in S : y <= x
SetMin(S) == CHOOSE x \in S : \A y \in S : x <= y

RECURSIVE SetSum(_)
SetSum(S) ==
    IF S = {} THEN 0
    ELSE LET x == CHOOSE y \in S : TRUE IN x.fee + SetSum(S \ {x})

\* round(n / d, 2) on an amount in cents: the nearest cent.
RoundDiv(n, d) == (2 * n + d) \div (2 * d)

\* One column's aggregates over the rows of a code: MIN(NULLIF(fee, 0)),
\* MAX(fee) and AVG(NULLIF(fee, 0)); none stands for SQL NULL, and the
\* average is kept as the fraction sum / count.
Aggregate(fees) ==
    LET nz == {f \in fees : f.fee # 0}
    IN  [min |-> IF nz = {} THEN [none |-> TRUE, v |-> 0]
                 ELSE [none |-> FALSE, v |-> SetMin({f.fee : f \in nz})],
         max |-> IF fees = {} THEN [none |-> TRUE, v |-> 0]
                 ELSE [none |-> FALSE, v |-> SetMax({f.fee : f \in fees})],
         avg |-> IF nz = {} THEN [none |-> TRUE, num |-> 0, den |-> 1]
                 ELSE [none |-> FALSE, num |-> SetSum(nz), den |-> Cardinality(nz)]]

\* Lines 93-115: the price range from the candidate prices and the averages
\* of the two columns.
PriceRange(prices, avg_non_fac, avg_fac) ==
    LET high_price == SetMax(prices)
        hasN == ~avg_non_fac.none /\ avg_non_fac.num > 0
        hasF == ~avg_fac.none /\ avg_fac.num > 0
        avg_price ==
            IF hasN /\ hasF
            THEN RoundDiv(avg_non_fac.num * avg_fac.den + avg_fac.num * avg_non_fac.den,
                          2 * avg_non_fac.den * avg_fac.den)
            ELSE IF hasN THEN RoundDiv(avg_non_fac.num, avg_non_fac.den)
            ELSE IF hasF THEN RoundDiv(avg_fac.num, avg_fac.den)
            ELSE high_price
    IN  IF prices # {} /\ avg_price > 0 /\ high_price > 0
        THEN [found |-> TRUE, description |-> "Medical Service",
              avg_price |-> avg_price, high_price |-> high_price]
        ELSE NotFound

\* The heuristic over the row of aggregates (lines 73-115).
PriceHeuristic(non_fac, fac) ==
    LET positive(a) == IF ~a.none /\ a.v > 0 THEN {a.v} ELSE {}
        average(a) == IF ~a.none /\ a.num > 0 THEN {RoundDiv(a.num, a.den)} ELSE {}
        minmax == positive(non_fac.min) \cup positive(non_fac.max)
                  \cup positive(fac.min) \cup positive(fac.max)
        avgs == average(non_fac.avg) \cup average(fac.avg)
    IN  PriceRange(IF minmax = {} THEN avgs ELSE minmax, non_fac.avg, fac.avg)

\* The query of get_fee_info (lines 57-70) and the heuristic over its row.
QueryFeeSchedule(code) ==
    PriceHeuristic(
        Aggregate({[region |-> r.region, fee |-> r.non_fac_fee] :
                       r \in {x \in fee_schedule : x.hcpcs = code}}),
        Aggregate({[region |-> r.region, fee |-> r.fac_fee] :
                       r \in {x \in fee_schedule : x.hcpcs = code}}))

\* The try block over data.db: a missing table and an access error both fall
\* through to the JSON file.
PrimaryLookup(code, mode) ==
    IF mode = "ok" THEN QueryFeeSchedule(code) ELSE NotFound

\* _load_reference_prices_json: fills the cache on the first call only.
load_reference_prices_json(c, jmode) ==
    IF c.loaded THEN c
    ELSE [loaded |-> TRUE,
          data |-> IF jmode = "ok" THEN reference_prices_json ELSE EmptyDict]

\* A variant of SecondaryLookup that takes the entry out of the cache.
SecondaryLookupConsuming(code, c2) ==
    IF code \in DOMAIN c2.data
    THEN [ref |-> [found |-> TRUE,
                   description |-> c2.data[code].description,
                   avg_price |-> c2.data[code].avg_price,
                   high_price |-> c2.data[code].high_price],
          cache |-> [c2 EXCEPT !.data = [k \in DOMAIN c2.data \ {code} |-> c2.data[k]]]]
    ELSE [ref |-> NotFound, cache |-> c2]

\* Lines 122-135: the fallback to the JSON file, with the loaded cache c2.
SecondaryLookup(code, c2) ==
    IF code \in DOMAIN c2.data
    THEN [ref |-> [found |-> TRUE,
                   description |-> c2.data[code].description,
                   avg_price |-> c2.data[code].avg_price,
                   high_price |-> c2.data[code].high_price],
          cache |-> c2]
    ELSE [ref |-> NotFound, cache |-> c2]

\* A variant of FirstHit that, when both stores know the code, returns the
\* range of the primary store with the average of the JSON file.
Blended(primary, secondary, c) ==
    IF primary.found /\ secondary.ref.found
    THEN [ref |-> [primary EXCEPT !.avg_price = secondary.ref.avg_price],
          cache |-> secondary.cache]
    ELSE IF primary.found THEN [ref |-> primary, cache |-> c]
    ELSE secondary

FirstHitBlended(code, primary, c, jmode) ==
    Blended(primary, SecondaryLookup(code, load_reference_prices_json(c, jmode)), c)

\* The result of the primary store when it has one, the fallback otherwise.
FirstHit(code, primary, c, jmode) ==
    IF primary.found THEN [ref |-> primary, cache |-> c]
    ELSE SecondaryLookup(code, load_reference_prices_json(c, jmode))

\* A variant of PrimaryErrorCaught: the block over data.db has no handler.
PrimaryErrorUncaught == FALSE

\* Lines 45 and 117-120: the block over data.db is a try with
\* "except Exception", which ends in the fallback.
PrimaryErrorCaught == TRUE

\* Whether get_fee_info raises to its caller.  Connecting to data.db or
\* querying it raises when the file cannot be read as a database; reading or
\* parsing reference_prices.json raises inside _load_reference_prices_json,
\* whose own handler (lines 22-24) leaves the empty cache.
get_fee_info_raises(mode) == mode = "error" /\ ~PrimaryErrorCaught

\* get_fee_info(code) with the cache c: the result and the cache it leaves.
get_fee_info(code, c, mode, jmode) ==
    FirstHit(code, PrimaryLookup(code, mode), c, jmode)

---------------------------------------------------------------------------
(* discrepancy.py: the Discrepancy Detection Engine.  Every check returns   *)
(* [raised, out, cache]: whether it raised, the findings it built, and the  *)
(* resolver cache it leaves.  Line-item positions are 0-based as in the     *)
(* code.  The text of a finding's description is not kept; building it      *)
(* reads item['description'], which raises KeyError on an absent key.       *)

NoReference == <<>>

Finding(type, severity, confidence, items_involved, potential_overcharge, reference) ==
    [type |-> type, severity |-> severity, confidence |-> confidence,
     items_involved |-> items_involved,
     potential_overcharge |-> potential_overcharge, reference |-> reference]

\* The key of _check_duplicates (lines 20-24).
DuplicateKey(item) ==
    <<Get(item.code, NullS),
      Strip(MapStr(Lower, GetDefault(item.description, <<>>).v)),
      Get(item.date_of_service, NullD)>>

RECURSIVE DuplicatesLoop(_, _, _, _)
\* One line item of the loop, with its key and the entries of seen that hold it.
DuplicatesItem(items, i, seen, duplicates, key, hit) ==
    IF hit # {}
    THEN IF items[i].description.st = "missing"
         THEN [raised |-> TRUE, out |-> duplicates]          \* KeyError
         ELSE DuplicatesLoop(items, i + 1, seen,
                  Append(duplicates,
                         Finding("duplicate_charge", "high", "high",
                                 <<(CHOOSE p \in hit : TRUE).idx, i - 1>>,
                                 GetDefault(items[i].total_charge, 0),
                                 NoReference)))
    ELSE DuplicatesLoop(items, i + 1, seen \cup {[key |-> key, idx |-> i - 1]},
                        duplicates)

DuplicatesLoop(items, i, seen, duplicates) ==
    IF i > Len(items) THEN [raised |-> FALSE, out |-> duplicates]
    ELSE IF items[i].description.st = "null"
    THEN [raised |-> TRUE, out |-> duplicates]               \* None.lower()
    ELSE DuplicatesItem(items, i, seen, duplicates, DuplicateKey(items[i]),
                        {p \in seen : p.key = DuplicateKey(items[i])})

check_duplicates(items) == DuplicatesLoop(items, 1, {}, <<>>)

\* charge > ref["high_price"] * 1.5, on the doubles of the two amounts.
WellAbove(charge, high_price) ==
    FloatGreater(FromCents(charge), FloatTimesOneAndHalf(FromCents(high_price)))

\* Line 49: the code the check passes to get_fee_info.
inflation_code(item) == Strip(item.code.v)

RECURSIVE PriceInflationLoop(_, _, _, _, _, _)
\* One line item with a code, after the lookup: ref is the reference found
\* and charge the item's total_charge.
PriceInflationItem(items, i, flags, ref, charge, c, mode, jmode) ==
    IF ~ref.found \/ ~TruthyN(charge) \/ charge.v <= ref.high_price
    THEN PriceInflationLoop(items, i + 1, flags, c, mode, jmode)
    ELSE IF items[i].description.st = "missing"
    THEN [raised |-> TRUE, out |-> flags, cache |-> c]       \* KeyError
    ELSE PriceInflationLoop(items, i + 1,
             Append(flags,
                    Finding("price_inflation",
                            IF WellAbove(charge.v, ref.high_price)
                            THEN "high" ELSE "medium",
                            "medium", <<i - 1>>,
                            Val(charge.v - ref.high_price), <<ref>>)),
             c, mode, jmode)

PriceInflationLookup(items, i, flags, got, mode, jmode) ==
    PriceInflationItem(items, i, flags, got.ref,
                       GetDefault(items[i].total_charge, 0), got.cache, mode, jmode)

PriceInflationLoop(items, i, flags, c, mode, jmode) ==
    IF i > Len(items) THEN [raised |-> FALSE, out |-> flags, cache |-> c]
    ELSE IF ~TruthyS(Get(items[i].code, NullS))
    THEN PriceInflationLoop(items, i + 1, flags, c, mode, jmode)
    ELSE PriceInflationLookup(items, i, flags,
                              get_fee_info(inflation_code(items[i]), c, mode, jmode),
                              mode, jmode)

check_price_inflation(items, c, mode, jmode) ==
    PriceInflationLoop(items, 1, <<>>, c, mode, jmode)

MaxQuantity == 5

RECURSIVE QuantityLoop(_, _, _)
QuantityItem(items, i, flags, qty) ==
    IF qty.st = "null" THEN [raised |-> TRUE, out |-> flags]      \* None > 5
    ELSE IF qty.v > MaxQuantity
    THEN IF items[i].description.st = "missing"
         THEN [raised |-> TRUE, out |-> flags]                    \* KeyError
         ELSE QuantityLoop(items, i + 1,
                  Append(flags,
                         Finding("quantity_anomaly", "medium", "low", <<i - 1>>,
                                 Val(0), NoReference)))
    ELSE QuantityLoop(items, i + 1, flags)

QuantityLoop(items, i, flags) ==
    IF i > Len(items) THEN [raised |-> FALSE, out |-> flags]
    ELSE QuantityItem(items, i, flags, GetDefault(items[i].quantity, 1))

check_quantity_anomalies(items) == QuantityLoop(items, 1, <<>>)

\* sum(item.get("total_charge", 0) for item in items): the charges added
\* one by one, from the first, to the total so far.
RECURSIVE SumCharges(_, _, _)
SumCharges(items, i, total) ==
    IF i > Len(items) THEN total
    ELSE SumCharges(items, i + 1,
                    FloatAdd(total, FromCents(GetDefault(items[i].total_charge, 0).v)))

Tolerance == 100

\* Lines 107-115: the finding for the two totals, if any.
MathFinding(calculated_total, total_billed) ==
    IF FloatGreater(FloatAbs(FloatSub(calculated_total, total_billed)),
                    FromCents(Tolerance))
    THEN <<Finding("math_error", "high", "high", <<>>,
                   Val(IF FloatGreater(total_billed, calculated_total)
                       THEN Cents(FloatAbs(FloatSub(calculated_total, total_billed)))
                       ELSE 0),
                   NoReference)>>
    ELSE <<>>

\* A variant of check_math_errors that compares the totals also when the
\* bill has no line item.
check_math_errors_unguarded(bill_data) ==
    IF Get(bill_data.total_billed, NullN).st = "val"
    THEN IF \E i \in 1..Len(bill_data.line_items) :
                bill_data.line_items[i].total_charge.st = "null"
         THEN [raised |-> TRUE, out |-> <<>>]
         ELSE [raised |-> FALSE,
               out |-> MathFinding(SumCharges(bill_data.line_items, 1,
                                              Float(0, 0, 0)),
                                   FromCents(bill_data.total_billed.v))]
    ELSE [raised |-> FALSE, out |-> <<>>]

check_math_errors(bill_data) ==
    IF Get(bill_data.total_billed, NullN).st = "val" /\ bill_data.line_items # <<>>
    THEN IF \E i \in 1..Len(bill_data.line_items) :
                bill_data.line_items[i].total_charge.st = "null"
         THEN [raised |-> TRUE, out |-> <<>>]                \* int + None
         ELSE [raised |-> FALSE,
               out |-> MathFinding(SumCharges(bill_data.line_items, 1,
                                              Float(0, 0, 0)),
                                   FromCents(bill_data.total_billed.v))]
    ELSE [raised |-> FALSE, out |-> <<>>]

\* The results of the four checks in order; the first one that raises ends
\* the run, and the lookups made until then have loaded the cache.
Concatenate(c, d, p, q, m) ==
    IF d.raised THEN [raised |-> TRUE, out |-> <<>>, cache |-> c]
    ELSE IF p.raised \/ q.raised \/ m.raised
    THEN [raised |-> TRUE, out |-> <<>>, cache |-> p.cache]
    ELSE [raised |-> FALSE, out |-> d.out \o p.out \o q.out \o m.out,
          cache |-> p.cache]

detect_discrepancies(bill_data, c, mode, jmode) ==
    Concatenate(c,
                check_duplicates(bill_data.line_items),
                check_price_inflation(bill_data.line_items, c, mode, jmode),
                check_quantity_anomalies(bill_data.line_items),
                check_math_errors(bill_data))

---------------------------------------------------------------------------
(* main.py: enrichment of an extracted bill with reference prices.         *)

Enriched(item, expected_charge, expected_charge_per_unit, high_price_per_unit) ==
    [item EXCEPT !.expected_charge = expected_charge,
                 !.expected_charge_per_unit = expected_charge_per_unit,
                 !.high_price_per_unit = high_price_per_unit]

\* Lines 159-172: the item with the enrichment fields for the reference.
EnrichItem(item, ref, quantity) ==
    IF ref.found /\ ref.avg_price > 0
    THEN Enriched(item, Val(ref.avg_price * quantity), Val(ref.avg_price),
                  Val(ref.high_price))
    ELSE Enriched(item, NullN, NullN, NullN)

\* The quantity as the item gives it, a null or zero quantity included.
QuantityAsGiven(item) == GetDefault(item.quantity, 1).v

\* item.get("quantity", 1) or 1
QuantityOrOne(item) ==
    IF TruthyN(GetDefault(item.quantity, 1)) THEN GetDefault(item.quantity, 1).v
    ELSE 1

\* Line 153: the code enrichment passes to get_fee_info.
enrichment_code(item) == normalize_code(item.code)

RECURSIVE EnrichLoop(_, _, _, _, _)
EnrichLookup(items, i, got, mode, jmode) ==
    EnrichLoop([items EXCEPT ![i] = EnrichItem(items[i], got.ref, QuantityOrOne(items[i]))],
               i + 1, got.cache, mode, jmode)

EnrichLoop(items, i, c, mode, jmode) ==
    IF i > Len(items) THEN [items |-> items, cache |-> c]
    ELSE IF TruthyS(Get(items[i].code, NullS))
            /\ enrichment_code(items[i]) # <<>>
    THEN EnrichLookup(items, i,
                      get_fee_info(enrichment_code(items[i]), c, mode, jmode),
                      mode, jmode)
    ELSE EnrichLookup(items, i, [ref |-> NotFound, cache |-> c], mode, jmode)

\* enrich_line_items_with_reference_prices: the bill with its line items
\* enriched in place, and the resolver cache the lookups leave.
EnrichResult(bill_data, r) ==
    [bill_data |-> [bill_data EXCEPT !.line_items = r.items], cache |-> r.cache]

enrich_line_items_with_reference_prices(bill_data, c, mode, jmode) ==
    EnrichResult(bill_data, EnrichLoop(bill_data.line_items, 1, c, mode, jmode))

---------------------------------------------------------------------------
(* Inputs: the bills the extraction collaborator returns and the bills a    *)
(* client sends to /confirm-bill.                                          *)

Item(code, description, quantity, total_charge, date_of_service) ==
    [code |-> code, description |-> description, quantity |-> quantity,
     total_charge |-> total_charge, date_of_service |-> date_of_service,
     expected_charge |-> MissingN, expected_charge_per_unit |-> MissingN,
     high_price_per_unit |-> MissingN]

Bill(total_billed, line_items) ==
    [total_billed |-> total_billed, line_items |-> line_items]

DescVisit == <<"E", "A">>
DescVisitLower == <<"e", "a", " ">>
DescLab == <<"l">>

\* An emergency visit billed twice (the second time well above the reference
\* range), a stated total above the sum of the items.
BillDup ==
    Bill(Val(45000),
         <<Item(Val(CodeA1), Val(DescVisit), Val(1), Val(15000), Val("d1")),
           Item(Val(CodeA1), Val(DescVisitLower), MissingN, Val(20000), Val("d1"))>>)

\* A lab charge with a high quantity, a code written with a dash, no date and
\* no stated total.
BillLab ==
    Bill(NullN,
         <<Item(Val(<<"b", "-", "2">>), Val(DescLab), Val(6), Val(6000), NullD)>>)

\* A bill without line items.
BillEmpty == Bill(Val(100), <<>>)

\* A partially populated bill: the quantity of its item is null.
BillNullQty ==
    Bill(Val(9000),
         <<Item(Val(CodeA1), Val(DescVisit), NullN, Val(9000), Val("d1"))>>)

ExtractedBills == {BillLab, BillNullQty}
ConfirmBills == {BillDup, BillLab, BillNullQty}

---------------------------------------------------------------------------
(* conversation.py: the text of a message is a sequence of tokens.         *)
\* Tokens: txt is prose without any marker; ac is prose that contains the
\* words assessment_complete; FenceJson is the opening fence of a JSON block
\* and Fence a plain fence; {A1} and {A2} are the JSON text of an assessment
\* object (it contains assessment_complete); {bad is text that contains
\* assessment_complete and is not JSON.

FenceJson == "<fence>json"
Fence == "<fence>"
JsonValues == {"{A1}", "{A2}"}
MarkerTokens == JsonValues \cup {"ac", "{bad"}

Contains(message, tokens) == \E i \in 1..Len(message) : message[i] \in tokens

\* The first index at or after from that holds one of the tokens, or
\* Len(message) + 1.
RECURSIVE Find(_, _, _)
Find(message, tokens, from) ==
    IF from > Len(message) \/ message[from] \in tokens THEN from
    ELSE Find(message, tokens, from + 1)

\* assistant_message.split(FenceJson)[1].split(Fence)[0]  (line 175): the
\* text after the first opening fence, up to the next fence of either kind.
Between(message, open, close) == SubSeq(message, open + 1, close - 1)

AfterOpen(message, open) ==
    Between(message, open, Find(message, {FenceJson, Fence}, open + 1))

BlockText(message) == AfterOpen(message, Find(message, {FenceJson}, 1))

\* json.loads: the text must be exactly one JSON value.
JsonLoads(text) ==
    IF Len(text) = 1 /\ text[1] \in JsonValues
    THEN [ok |-> TRUE, value |-> text[1]]
    ELSE [ok |-> FALSE, value |-> ""]

NoAssessment == <<>>

\* A variant of Loaded without the except clause's reset: whatever the parse
\* left is taken as the assessment.
LoadedUnchecked(parsed) == <<parsed.value>>

\* The except clause of lines 176-178: a text that does not parse leaves the
\* assessment None.
Loaded(parsed) == IF parsed.ok THEN <<parsed.value>> ELSE NoAssessment

\* Lines 172-178: the assessment embedded in a reply, NoAssessment when there
\* is none or when it does not parse.
ParseAssessment(assistant_message) ==
    IF Contains(assistant_message, {FenceJson})
       /\ Contains(assistant_message, MarkerTokens)
    THEN Loaded(JsonLoads(BlockText(assistant_message)))
    ELSE NoAssessment

ReplyPlain == <<"txt">>
ReplyDone == <<"txt", FenceJson, "{A1}", Fence, "txt">>
ReplyMalformed == <<"txt", FenceJson, "{bad", Fence>>
\* The fallback message of a blocked response (lines 115-120): prose.
FallbackMessage == <<"txt">>
GreetingPrompt == <<"hello">>

Replies == {ReplyPlain, ReplyDone, ReplyMalformed}

\* What the call to the conversational collaborator can yield: a reply with
\* text, a blocked response (no candidates), a response without text, an
\* API error, or an error whose text says the service is not available.
Outcomes ==
    [kind : {"text"}, text : Replies]
    \cup [kind : {"blocked", "no_text", "error", "unavailable"}, text : {<<>>}]

UserMessages == {<<>>, <<"hi">>}

Entry(role, content) == [role |-> role, content |-> content]

---------------------------------------------------------------------------
(* main.py: the session store and the responses of the handlers.           *)

Session(bill_data) ==
    [bill_data |-> bill_data, discrepancies |-> <<>>, chat_history |-> <<>>,
     final_assessment |-> NoAssessment]

Ok == 200
BadRequest == 400
NotFoundStatus == 404
ServerError == 500
Unavailable == 503

\* A response: the handler that sent it, the status and the fields of the
\* body (an error response, an HTTPException or an unhandled exception,
\* carries the status alone).
Resp(op, status) ==
    [op |-> op, status |-> status, session_id |-> 0, discrepancies |-> <<>>,
     total_savings |-> 0, message |-> <<>>, assessment |-> NoAssessment]

\* No response yet: the request is being handled.
NoResponse == Resp("", 0)

IdleLoc ==
    [op |-> "", sid |-> 0, user_message |-> <<>>, contents |-> <<>>,
     bill_data |-> BillEmpty, discrepancies |-> <<>>]

RECURSIVE SumSeq(_, _, _)
SumSeq(F(_), seq, i) ==
    IF i > Len(seq) THEN 0 ELSE F(seq[i]) + SumSeq(F, seq, i + 1)

\* A variant of the sum that counts the findings of high severity only.
TotalSavingsHighOnly(discrepancies) ==
    SumSeq(LAMBDA d : IF d.severity = "high" /\ TruthyN(d.potential_overcharge)
                      THEN d.potential_overcharge.v ELSE 0,
           discrepancies, 1)

\* sum((d.get("potential_overcharge") or 0) for d in discrepancies)
TotalSavings(discrepancies) ==
    SumSeq(LAMBDA d : IF TruthyN(d.potential_overcharge)
                      THEN d.potential_overcharge.v ELSE 0,
           discrepancies, 1)

\* The measure MaxSize bounds.
Size ==
    2 * session_counter
    + SumSeq(LAMBDA sid : Len(bill_store[sid].chat_history),
             [i \in 1..session_counter |-> i], 1)

\* No direct call: the functions run inside the handlers.
NoCall ==
    [fn |-> "", arg |-> <<>>, done |-> FALSE, raised |-> FALSE, out |-> <<>>,
     repeated |-> FALSE, again |-> <<>>]

\* A session id of a request: an existing session, or 0 for an unknown id.
SessionArgs == DOMAIN bill_store \cup {0}

Init ==
    /\ bill_store = [sid \in {} |-> Session(BillEmpty)]
    /\ session_counter = 0
    /\ cache = [loaded |-> FALSE, data |-> EmptyDict]
    /\ db_mode = "ok"
    /\ json_mode = "ok"
    /\ pc = [t \in Tasks |-> "idle"]
    /\ loc = [t \in Tasks |-> IdleLoc]
    /\ loop = 0
    /\ response = NoResponse
    /\ confirmed = {}
    /\ call = NoCall

\* upload_bill, refused before a bill is extracted: an unsupported file type
\* (400), an extraction failure (500) or an unavailable extraction (503).
UploadRefused(status) ==
    /\ loop = 0
    /\ response' = Resp("upload", status)
    /\ UNCHANGED <<bill_store, session_counter, cache, db_mode, json_mode, call,
                   pc, loc, loop, confirmed>>

\* A variant of UploadStore that keeps the findings of the detection run in
\* the new session.
UploadStoreFindings(bill_data, d) ==
    /\ cache' = d.cache
    /\ IF d.raised
       THEN /\ response' = Resp("upload", ServerError)
            /\ UNCHANGED <<bill_store, session_counter>>
       ELSE /\ session_counter' = session_counter + 1
            /\ bill_store' = ((session_counter + 1) :>
                                  [Session(bill_data) EXCEPT !.discrepancies = d.out])
                              @@ bill_store
            /\ response' = [Resp("upload", Ok) EXCEPT !.session_id = session_counter + 1]

\* A variant of UploadStore that takes the session id from the counter
\* without advancing it.
UploadStoreSameId(bill_data, d) ==
    /\ cache' = d.cache
    /\ IF d.raised
       THEN /\ response' = Resp("upload", ServerError)
            /\ UNCHANGED <<bill_store, session_counter>>
       ELSE /\ session_counter' = session_counter
            /\ bill_store' = ((session_counter + 1) :> Session(bill_data)) @@ bill_store
            /\ response' = [Resp("upload", Ok) EXCEPT !.session_id = session_counter + 1]

\* A variant of UploadStore that advances the counter before the detection
\* run.
UploadStoreCountFirst(bill_data, d) ==
    /\ cache' = d.cache
    /\ session_counter' = session_counter + 1
    /\ IF d.raised
       THEN /\ response' = Resp("upload", ServerError)
            /\ UNCHANGED bill_store
       ELSE /\ bill_store' = ((session_counter + 1) :> Session(bill_data)) @@ bill_store
            /\ response' = [Resp("upload", Ok) EXCEPT !.session_id = session_counter + 1]

\* Lines 206-216 of upload_bill: d is the result of the detection run on
\* the enriched bill, which the handler drops.
UploadStore(bill_data, d) ==
    /\ cache' = d.cache
    /\ IF d.raised
       THEN /\ response' = Resp("upload", ServerError)
            /\ UNCHANGED <<bill_store, session_counter>>
       ELSE /\ session_counter' = session_counter + 1
            /\ bill_store' = ((session_counter + 1) :> Session(bill_data)) @@ bill_store
            /\ response' = [Resp("upload", Ok) EXCEPT !.session_id = session_counter + 1]

UploadEnriched(e) ==
    UploadStore(e.bill_data,
                detect_discrepancies(e.bill_data, e.cache, db_mode, json_mode))

\* upload_bill on an extracted bill: enrichment, the detection run and the
\* new session.
UploadBill(bill) ==
    /\ loop = 0
    /\ Size + 2 <= MaxSize
    /\ UploadEnriched(enrich_line_items_with_reference_prices(bill, cache, db_mode,
                                                               json_mode))
    /\ UNCHANGED <<db_mode, json_mode, call, pc, loc, loop, confirmed>>

\* A variant of ConfirmStore that extends the stored findings instead of
\* replacing them.
ConfirmStoreExtend(session, bill_data, d) ==
    IF d.raised THEN [session EXCEPT !.bill_data = bill_data]
    ELSE [session EXCEPT !.bill_data = bill_data,
                         !.discrepancies = session.discrepancies \o d.out]

\* A variant of ConfirmStore that starts the conversation over.
ConfirmStoreReset(session, bill_data, d) ==
    IF d.raised THEN [session EXCEPT !.bill_data = bill_data]
    ELSE [session EXCEPT !.bill_data = bill_data, !.discrepancies = d.out,
                         !.chat_history = <<>>]

\* A variant of ConfirmStore that drops the assessment made against the bill
\* it replaces.
ConfirmStoreFresh(session, bill_data, d) ==
    IF d.raised THEN [session EXCEPT !.bill_data = bill_data]
    ELSE [session EXCEPT !.bill_data = bill_data, !.discrepancies = d.out,
                         !.final_assessment = NoAssessment]

\* The assignments of confirm_bill to the session (lines 228-232); d is the
\* result of the detection run.
ConfirmStore(session, bill_data, d) ==
    IF d.raised THEN [session EXCEPT !.bill_data = bill_data]
    ELSE [session EXCEPT !.bill_data = bill_data, !.discrepancies = d.out]

\* Lines 234-239: the response of confirm_bill.
ConfirmResponse(d) ==
    IF d.raised THEN Resp("confirm", ServerError)
    ELSE [Resp("confirm", Ok) EXCEPT !.discrepancies = d.out,
                                     !.total_savings = TotalSavings(d.out)]

ConfirmDetected(sid, bill_data, d) ==
    /\ bill_store' = [bill_store EXCEPT
                          ![sid] = ConfirmStore(bill_store[sid], bill_data, d)]
    /\ cache' = d.cache
    /\ confirmed' = confirmed \cup {sid}
    /\ response' = ConfirmResponse(d)

\* The states of the reference-price cache: not loaded, loaded from the
\* file, loaded empty (no file, or a file that does not parse).
CacheStates ==
    {[loaded |-> FALSE, data |-> EmptyDict],
     [loaded |-> TRUE, data |-> reference_prices_json],
     [loaded |-> TRUE, data |-> EmptyDict]}

\* detect_discrepancies, tabulated over the bills a confirmation carries and
\* the states of the reference data.
Detection ==
    [bill_data \in ConfirmBills, c \in CacheStates, mode \in DbModes,
     jmode \in JsonModes |-> detect_discrepancies(bill_data, c, mode, jmode)]

\* confirm_bill (lines 219-239).
ConfirmBill(sid, bill_data) ==
    /\ loop = 0
    /\ IF sid \notin DOMAIN bill_store
       THEN /\ response' = Resp("confirm", NotFoundStatus)
            /\ UNCHANGED <<bill_store, cache, confirmed>>
       ELSE ConfirmDetected(sid, bill_data,
                            Detection[bill_data, cache, db_mode, json_mode])
    /\ UNCHANGED <<session_counter, db_mode, json_mode, call, pc, loc, loop>>

---------------------------------------------------------------------------
(* conversation.py: one chat turn.  The turn is in two steps, before and    *)
(* after the call to the conversational collaborator.                      *)

\* A variant of CallYields: the call is awaited, and other requests run
\* while it is pending.
CallYieldsAwaited == TRUE

\* Whether the call to the collaborator yields the event loop to other
\* requests.  chat and start_chat call get_chat_response without await, and
\* generate_content is the synchronous client call: the handler keeps the
\* event loop from its first line to its return.
CallYields == FALSE

\* Lines 60-87: the contents sent to the collaborator.
BuildContents(chat_history, user_message) ==
    LET contents == IF user_message # <<>>
                    THEN Append(chat_history, Entry("user", user_message))
                    ELSE chat_history
    IN  IF contents = <<>> THEN <<Entry("user", GreetingPrompt)>> ELSE contents

\* Lines 89-165: the outcome of the call as the assistant message, or as the
\* exception get_chat_response raises.
AssistantMessage(outcome) ==
    CASE outcome.kind = "text" -> [raised |-> FALSE, status |-> Ok, text |-> outcome.text]
      [] outcome.kind = "blocked" ->
             [raised |-> FALSE, status |-> Ok, text |-> FallbackMessage]
      [] outcome.kind = "unavailable" ->
             [raised |-> TRUE, status |-> Unavailable, text |-> <<>>]
      [] OTHER -> [raised |-> TRUE, status |-> ServerError, text |-> <<>>]

\* A variant of AppendTurn that appends the reply before the message.
AppendTurnReplyFirst(chat_history, user_message, assistant_message) ==
    LET with_model == Append(chat_history, Entry("model", assistant_message))
    IN  IF user_message # <<>>
        THEN Append(with_model, Entry("user", user_message))
        ELSE with_model

\* A variant of AppendTurn that extends the contents sent to the
\* collaborator, greeting prompt included.
AppendTurnContents(chat_history, user_message, assistant_message) ==
    Append(BuildContents(chat_history, user_message),
           Entry("model", assistant_message))

\* Lines 167-170: the entries one turn appends.
AppendTurn(chat_history, user_message, assistant_message) ==
    LET with_user == IF user_message # <<>>
                     THEN Append(chat_history, Entry("user", user_message))
                     ELSE chat_history
    IN  Append(with_user, Entry("model", assistant_message))

\* The entries a turn with this message adds when it succeeds.
TurnSize(user_message) == IF user_message # <<>> THEN 2 ELSE 1

\* What chat does with the result of get_chat_response (lines 257-258).
ChatStore(session, assessment) ==
    IF assessment # NoAssessment
    THEN [session EXCEPT !.final_assessment = assessment]
    ELSE session

\* What start_chat does with the result of get_chat_response (line 289).
StartStore(session, assessment) == session

\* The task that takes the next request: the first one that is idle (0 when
\* all are busy).
FreeTask ==
    IF \E t \in Tasks : pc[t] = "idle"
    THEN CHOOSE t \in Tasks : pc[t] = "idle" /\ \A u \in Tasks : pc[u] = "idle" => t <= u
    ELSE 0

\* The call of get_chat_response up to the request to the collaborator.
BeginTurn(t, op, sid, user_message) ==
    /\ pc' = [pc EXCEPT ![t] = "calling"]
    /\ loc' = [loc EXCEPT ![t] =
                   [op |-> op, sid |-> sid, user_message |-> user_message,
                    contents |-> BuildContents(bill_store[sid].chat_history,
                                               user_message),
                    bill_data |-> bill_store[sid].bill_data,
                    discrepancies |-> bill_store[sid].discrepancies]]
    /\ loop' = IF CallYields THEN 0 ELSE t
    /\ response' = NoResponse
    /\ UNCHANGED bill_store

\* A variant of Replied that keeps one conversation for all sessions: the
\* entries of a turn are appended in every session of the store.
RepliedShared(t, op, sid, m, assessment) ==
    /\ bill_store' =
           [s \in DOMAIN bill_store |->
                [bill_store[s] EXCEPT !.chat_history =
                     AppendTurn(@, loc[t].user_message, m.text)]]
    /\ response' = [Resp(op, Ok) EXCEPT !.message = m.text, !.assessment = assessment]

\* The turn after a reply m: the entries appended, the assessment stored and
\* the response.
Replied(t, op, sid, m, assessment) ==
    /\ bill_store' =
           [bill_store EXCEPT ![sid] =
                IF op = "chat"
                THEN ChatStore([@ EXCEPT !.chat_history =
                                    AppendTurn(@, loc[t].user_message, m.text)],
                               assessment)
                ELSE StartStore([@ EXCEPT !.chat_history =
                                     AppendTurn(@, loc[t].user_message, m.text)],
                                assessment)]
    /\ response' = [Resp(op, Ok) EXCEPT !.message = m.text, !.assessment = assessment]

\* A variant of Answered in which the user entry is appended before the
\* call, and stays when the call fails.
AnsweredPartial(t, op, m) ==
    IF m.raised
    THEN /\ response' = Resp(op, m.status)
         /\ bill_store' =
                [bill_store EXCEPT ![loc[t].sid].chat_history =
                     IF loc[t].user_message # <<>>
                     THEN Append(@, Entry("user", loc[t].user_message))
                     ELSE @]
    ELSE Replied(t, op, loc[t].sid, m, ParseAssessment(m.text))

\* Lines 249-258 and 278-289 of main.py: a raised exception becomes the error
\* response; a result is stored and returned.
Answered(t, op, m) ==
    IF m.raised
    THEN /\ response' = Resp(op, m.status)
         /\ UNCHANGED bill_store
    ELSE Replied(t, op, loc[t].sid, m, ParseAssessment(m.text))

\* The rest of the turn, from the collaborator's answer to the response.
EndTurn(t, op, outcome) ==
    /\ pc' = [pc EXCEPT ![t] = "idle"]
    /\ loc' = [loc EXCEPT ![t] = IdleLoc]
    /\ loop' = 0
    /\ Answered(t, op, AssistantMessage(outcome))

ChatCall(t, sid, user_message) ==
    /\ t = FreeTask
    /\ loop = 0
    /\ IF sid \notin DOMAIN bill_store
       THEN /\ response' = Resp("chat", NotFoundStatus)
            /\ UNCHANGED <<bill_store, pc, loc, loop>>
       ELSE /\ Size + TurnSize(user_message) <= MaxSize
            /\ BeginTurn(t, "chat", sid, user_message)
    /\ UNCHANGED <<session_counter, cache, db_mode, json_mode, call, confirmed>>

ChatReturn(t, outcome) ==
    /\ pc[t] = "calling"
    /\ loc[t].op = "chat"
    /\ loop = t \/ (CallYields /\ loop = 0)
    /\ EndTurn(t, "chat", outcome)
    /\ UNCHANGED <<session_counter, cache, db_mode, json_mode, call, confirmed>>

\* start_chat; sid = 0 stands for a session id that is not in the store.
StartCall(t, sid) ==
    /\ t = FreeTask
    /\ loop = 0
    /\ IF sid \notin DOMAIN bill_store
       THEN /\ response' = Resp("start", NotFoundStatus)
            /\ UNCHANGED <<bill_store, pc, loc, loop>>
       ELSE /\ Size + TurnSize(<<>>) <= MaxSize
            /\ BeginTurn(t, "start", sid, <<>>)
    /\ UNCHANGED <<session_counter, cache, db_mode, json_mode, call, confirmed>>

\* start_chat without a session_id in the body.
StartNoId ==
    /\ loop = 0
    /\ response' = Resp("start", BadRequest)
    /\ UNCHANGED <<bill_store, session_counter, cache, db_mode, json_mode, call,
                   pc, loc, loop, confirmed>>

StartReturn(t, outcome) ==
    /\ pc[t] = "calling"
    /\ loc[t].op = "start"
    /\ loop = t \/ (CallYields /\ loop = 0)
    /\ EndTurn(t, "start", outcome)
    /\ UNCHANGED <<session_counter, cache, db_mode, json_mode, call, confirmed>>

---------------------------------------------------------------------------
(* main.py: the read-only handlers.                                        *)

\* sum(d.get("potential_overcharge", 0) for d in discrepancies): a null
\* overcharge makes the sum raise.
SumRaises(discrepancies) ==
    \E i \in 1..Len(discrepancies) : discrepancies[i].potential_overcharge.st = "null"

ReadOnlyResponse(op, sid, failed) ==
    IF sid \notin DOMAIN bill_store THEN Resp(op, NotFoundStatus)
    ELSE IF failed \/ SumRaises(bill_store[sid].discrepancies)
    THEN Resp(op, ServerError)
    ELSE [Resp(op, Ok) EXCEPT
              !.discrepancies = bill_store[sid].discrepancies,
              !.total_savings = TotalSavings(bill_store[sid].discrepancies),
              !.assessment = bill_store[sid].final_assessment]

\* A variant of the reading handlers that drops the stored conversation of
\* the session once its results were delivered.
ReadOnlyConsuming(op, sid, failed) ==
    /\ loop = 0
    /\ response' = ReadOnlyResponse(op, sid, failed)
    /\ bill_store' =
           IF sid \in DOMAIN bill_store
           THEN [bill_store EXCEPT ![sid].chat_history = <<>>]
           ELSE bill_store
    /\ UNCHANGED <<session_counter, cache, db_mode, json_mode, call,
                   pc, loc, loop, confirmed>>

\* get_results and dispute_preview read the session and write nothing.
ReadOnly(op, sid, failed) ==
    /\ loop = 0
    /\ response' = ReadOnlyResponse(op, sid, failed)
    /\ UNCHANGED <<bill_store, session_counter, cache, db_mode, json_mode, call,
                   pc, loc, loop, confirmed>>

GetResults(sid) == ReadOnly("results", sid, FALSE)

\* dispute_preview; failed: the letter-drafting collaborator is not installed
\* and raises.
DisputePreview(sid, failed) == ReadOnly("preview", sid, failed)

\* A variant of dispute_send that closes the session once the letter is sent.
DisputeSendClosing(sid, failed) ==
    /\ loop = 0
    /\ response' =
           IF sid \notin DOMAIN bill_store THEN Resp("send", NotFoundStatus)
           ELSE IF failed THEN Resp("send", ServerError)
           ELSE Resp("send", Ok)
    /\ bill_store' =
           IF sid \in DOMAIN bill_store /\ ~failed
           THEN [s \in DOMAIN bill_store \ {sid} |-> bill_store[s]]
           ELSE bill_store
    /\ UNCHANGED <<session_counter, cache, db_mode, json_mode, call,
                   pc, loc, loop, confirmed>>

\* dispute_send; failed: the email collaborator raises.
DisputeSend(sid, failed) ==
    /\ loop = 0
    /\ response' =
           IF sid \notin DOMAIN bill_store THEN Resp("send", NotFoundStatus)
           ELSE IF failed THEN Resp("send", ServerError)
           ELSE Resp("send", Ok)
    /\ UNCHANGED <<bill_store, session_counter, cache, db_mode, json_mode, call,
                   pc, loc, loop, confirmed>>

---------------------------------------------------------------------------

Next ==
    \/ \E status \in {BadRequest, ServerError, Unavailable} : UploadRefused(status)
    \/ \E bill \in ExtractedBills : UploadBill(bill)
    \/ \E sid \in SessionArgs, bill \in ConfirmBills : ConfirmBill(sid, bill)
    \/ \E t \in Tasks, sid \in SessionArgs, m \in UserMessages : ChatCall(t, sid, m)
    \/ \E t \in Tasks, o \in Outcomes : ChatReturn(t, o)
    \/ \E t \in Tasks, sid \in SessionArgs : StartCall(t, sid)
    \/ StartNoId
    \/ \E t \in Tasks, o \in Outcomes : StartReturn(t, o)
    \/ \E sid \in SessionArgs : GetResults(sid)
    \/ \E sid \in SessionArgs, failed \in BOOLEAN : DisputePreview(sid, failed)
    \/ \E sid \in SessionArgs, failed \in BOOLEAN : DisputeSend(sid, failed)

Spec == Init /\ [][Next]_vars

---------------------------------------------------------------------------
(* Direct calls of the checks of discrepancy.py and of get_fee_info, on     *)
(* bills and codes drawn from bounded sets.  A call is one step: from the   *)
(* argument to the result, or to the exception the function raises.        *)

MaxItems == 3

\* Line items: a visit within one and a half times the reference range; the
\* same visit again, its description in another case and its quantity
\* absent; a shot with a high quantity, charged one and a half times the
\* high price of the JSON file; an item with no field at all; an item whose
\* description is null; an item whose quantity and charge are null.
ItemVisit == Item(Val(CodeA1), Val(DescVisit), Val(1), Val(15000), Val("d1"))
ItemVisitAgain == Item(Val(CodeA1), Val(DescVisitLower), MissingN, Val(20000), Val("d1"))
ItemShot == Item(Val(CodeD4), Val(DescLab), Val(6), Val(174), NullD)
ItemBare == Item(MissingS, MissingS, MissingN, MissingN, MissingD)
ItemNullDescription == Item(Val(CodeB2), NullS, Val(1), Val(6000), Val("d1"))
ItemNullQuantity == Item(Val(CodeC3), Val(DescVisit), NullN, NullN, Val("d1"))

EngineItems ==
    {ItemVisit, ItemVisitAgain, ItemShot, ItemBare, ItemNullDescription,
     ItemNullQuantity}

ItemLists == UNION {[1..n -> EngineItems] : n \in 0..MaxItems}

\* Stated totals: none, the charge of the shot plus 1.00, and the charge of
\* the visit plus 1.00.
StatedTotals == {NullN, MissingN, Val(274), Val(15100)}

\* The states of the two stores a check runs against.
EngineModes == {<<"ok", "ok">>, <<"error", "ok">>, <<"no_table", "corrupt">>}

EngineCodes == {CodeA1, CodeB2, CodeC3, CodeD4, CodeE5, <<"Z", "9">>}

\* Line items for enrichment: those above, a lab charge with a zero quantity
\* and its code written with a dash, and an item whose code is a dash alone.
ItemZeroQuantity == Item(Val(<<"b", "-", "2">>), Val(DescLab), Val(0), Val(6000), NullD)
ItemDash == Item(Val(<<"-">>), Val(DescLab), Val(1), Val(6000), NullD)

EnrichItems == EngineItems \cup {ItemZeroQuantity, ItemDash}

EnrichLists == UNION {[1..n -> EnrichItems] : n \in 0..MaxItems}

\* Codes as they are written on a bill: every string of up to MaxCodeChars
\* characters drawn from a letter in either case, the separators and a tab,
\* and two strings longer than a code.
MaxCodeChars == 3

CodeChars == {"a", "B", "-", ".", " ", Tab}

LongCodeDashed == <<"a", "-", "b", ".", "e", " ", "a", "b", "e">>
LongCodeTabbed == <<"a", "b", "e", "a", Tab, "b", "e">>

WrittenCodes ==
    UNION {[1..n -> CodeChars] : n \in 0..MaxCodeChars}
    \cup {LongCodeDashed, LongCodeTabbed}

\* A call that has not run yet; repeated and again hold the result of a
\* second call with the same argument.
CallOf(fn, arg) == [NoCall EXCEPT !.fn = fn, !.arg = arg]

Calls ==
    {CallOf("_check_duplicates", Bill(NullN, items)) : items \in ItemLists}
    \cup {CallOf("_check_price_inflation", Bill(NullN, items)) : items \in ItemLists}
    \cup {CallOf("_check_price_inflation", BillLab)}
    \cup {CallOf("_check_math_errors", Bill(t, items)) :
              t \in StatedTotals, items \in ItemLists}
    \cup {CallOf("detect_discrepancies", Bill(t, items)) :
              t \in StatedTotals, items \in ItemLists}
    \cup {CallOf("get_fee_info", [code |-> code]) : code \in EngineCodes}
    \cup {CallOf("enrich_line_items_with_reference_prices", Bill(NullN, items)) :
              items \in EnrichLists}
    \cup {CallOf("normalize_code", [code |-> Val(s)]) : s \in WrittenCodes}
    \cup {CallOf("normalize_code", [code |-> NullS])}

StoreFns ==
    {"_check_price_inflation", "detect_discrepancies",
     "enrich_line_items_with_reference_prices"}

InitCalls ==
    /\ bill_store = [sid \in {} |-> Session(BillEmpty)]
    /\ session_counter = 0
    /\ pc = [t \in Tasks |-> "idle"]
    /\ loc = [t \in Tasks |-> IdleLoc]
    /\ loop = 0
    /\ response = NoResponse
    /\ confirmed = {}
    /\ call \in Calls
    /\ \E modes \in IF call.fn = "get_fee_info" THEN DbModes \X JsonModes
                     ELSE IF call.fn \in StoreFns THEN EngineModes
                     ELSE {<<"ok", "ok">>} :
           /\ db_mode = modes[1]
           /\ json_mode = modes[2]
    /\ cache \in
           IF call.fn = "get_fee_info" THEN CacheStates
           ELSE {[loaded |-> FALSE, data |-> EmptyDict]}

\* The call returns r, a record [raised, out]; an exception leaves no result.
Returned(r) ==
    [call EXCEPT !.done = TRUE, !.raised = r.raised,
                 !.out = IF r.raised THEN <<>> ELSE r.out]

Apply(fn, r, c) ==
    /\ call.fn = fn
    /\ ~call.done
    /\ call' = Returned(r)
    /\ cache' = c
    /\ UNCHANGED <<bill_store, session_counter, db_mode, json_mode,
                   pc, loc, loop, response, confirmed>>

CallCheckDuplicates ==
    /\ call.fn = "_check_duplicates"
    /\ Apply("_check_duplicates", check_duplicates(call.arg.line_items), cache)

CallCheckPriceInflation ==
    /\ call.fn = "_check_price_inflation"
    /\ Apply("_check_price_inflation",
             check_price_inflation(call.arg.line_items, cache, db_mode, json_mode),
             check_price_inflation(call.arg.line_items, cache, db_mode,
                                   json_mode).cache)

CallCheckMathErrors ==
    /\ call.fn = "_check_math_errors"
    /\ Apply("_check_math_errors", check_math_errors(call.arg), cache)

CallDetect ==
    /\ call.fn = "detect_discrepancies"
    /\ Apply("detect_discrepancies",
             detect_discrepancies(call.arg, cache, db_mode, json_mode),
             detect_discrepancies(call.arg, cache, db_mode, json_mode).cache)

CallGetFeeInfo ==
    /\ call.fn = "get_fee_info"
    /\ Apply("get_fee_info",
             [raised |-> get_fee_info_raises(db_mode),
              out |-> get_fee_info(call.arg.code, cache, db_mode, json_mode).ref],
             get_fee_info(call.arg.code, cache, db_mode, json_mode).cache)

\* get_fee_info once more with the same code, the stores as they were and
\* the cache as the first call left it.
\* The items enrichment calls get_fee_info for.
Looked(items) ==
    {i \in 1..Len(items) :
        TruthyS(Get(items[i].code, NullS)) /\ enrichment_code(items[i]) # <<>>}

\* enrich_line_items_with_reference_prices changes the line items in place
\* and returns nothing: the result is the list of line items after the call.
CallEnrich ==
    /\ call.fn = "enrich_line_items_with_reference_prices"
    /\ Apply("enrich_line_items_with_reference_prices",
             [raised |-> Looked(call.arg.line_items) # {} /\ get_fee_info_raises(db_mode),
              out |-> enrich_line_items_with_reference_prices(
                          call.arg, cache, db_mode, json_mode).bill_data.line_items],
             enrich_line_items_with_reference_prices(
                 call.arg, cache, db_mode, json_mode).cache)

CallNormalizeCode ==
    /\ call.fn = "normalize_code"
    /\ Apply("normalize_code",
             [raised |-> FALSE, out |-> normalize_code(call.arg.code)], cache)

CallGetFeeInfoAgain ==
    /\ call.fn = "get_fee_info"
    /\ call.done
    /\ ~call.repeated
    /\ call' = [call EXCEPT
                    !.repeated = TRUE,
                    !.again = get_fee_info(call.arg.code, cache, db_mode, json_mode).ref]
    /\ cache' = get_fee_info(call.arg.code, cache, db_mode, json_mode).cache
    /\ UNCHANGED <<bill_store, session_counter, db_mode, json_mode,
                   pc, loc, loop, response, confirmed>>

NextCalls ==
    \/ CallCheckDuplicates
    \/ CallCheckPriceInflation
    \/ CallCheckMathErrors
    \/ CallDetect
    \/ CallGetFeeInfo
    \/ CallGetFeeInfoAgain
    \/ CallEnrich
    \/ CallNormalizeCode

SpecCalls == InitCalls /\ [][NextCalls]_vars

---------------------------------------------------------------------------
(* Properties of the sessions.                                             *)

\* The return of a chat turn, of either handler, with this outcome of the
\* call to the collaborator.
TurnReturn(t, o) == ChatReturn(t, o) \/ StartReturn(t, o)

\* The outcomes in which the collaborator fails.
FailureKinds == {"no_text", "error", "unavailable"}

\* The number of user entries of a history.
UserEntries(chat_history) ==
    Len(SelectSeq(chat_history, LAMBDA e : e.role = "user"))

IsPrefix(s, t) == Len(s) <= Len(t) /\ SubSeq(t, 1, Len(s)) = s

\* A reply that embeds a completion block (an opening fence and the words
\* assessment_complete) whose text is not JSON.
MalformedBlock(text) ==
    /\ Contains(text, {FenceJson})
    /\ Contains(text, MarkerTokens)
    /\ ~JsonLoads(BlockText(text)).ok

\* The findings and the overcharge total of a session id's stored bill, as
\* the Detection Engine computes them against the current reference data
\* (no finding when the engine raises).
DetectStored(sid) ==
    detect_discrepancies(bill_store[sid].bill_data, cache, db_mode, json_mode).out

\* C1: in every reachable state, the stored discrepancies of a session that
\* has been confirmed at least once are exactly the Detection Engine's output
\* for the session's current bill_data: no finding is left from an earlier
\* confirmation.
C1_DiscrepanciesAreDetectionOfBill ==
    \A sid \in confirmed : bill_store[sid].discrepancies = DetectStored(sid)

\* C2: a successful chat turn with a non-empty message extends chat_history
\* by exactly the user entry holding the message followed by the model entry
\* holding the reply, and changes nothing else of the history.
C2_TurnAppendsUserThenModel ==
    [][\A t \in Tasks, o \in Outcomes :
          (TurnReturn(t, o) /\ loc[t].user_message # <<>> /\ response'.status = Ok)
          => bill_store'[loc[t].sid].chat_history =
                 bill_store[loc[t].sid].chat_history
                 \o <<Entry("user", loc[t].user_message),
                      Entry("model", response'.message)>>]_vars

C2_Witness ==
    /\ response.op = "chat"
    /\ response.status = Ok
    /\ \E sid \in DOMAIN bill_store :
          /\ Len(bill_store[sid].chat_history) = 3
          /\ bill_store[sid].chat_history[1].role = "model"
          /\ bill_store[sid].chat_history[2] = Entry("user", <<"hi">>)
          /\ bill_store[sid].chat_history[3] = Entry("model", response.message)

\* C3: a chat turn with an empty message, on a fresh or on a started
\* conversation, adds no user entry (neither the empty message nor the
\* greeting prompt sent to the collaborator), and the turn that succeeds adds
\* exactly one model entry, the reply; the turn that fails adds nothing.
C3_EmptyMessageAddsOneModelEntry ==
    [][\A t \in Tasks, o \in Outcomes :
          (TurnReturn(t, o) /\ loc[t].user_message = <<>>)
          => /\ UserEntries(bill_store'[loc[t].sid].chat_history)
                  = UserEntries(bill_store[loc[t].sid].chat_history)
             /\ bill_store'[loc[t].sid].chat_history =
                    IF response'.status = Ok
                    THEN Append(bill_store[loc[t].sid].chat_history,
                                Entry("model", response'.message))
                    ELSE bill_store[loc[t].sid].chat_history]_vars

C3_Witness ==
    /\ response.op = "start"
    /\ response.status = Ok
    /\ \E sid \in DOMAIN bill_store :
          /\ Len(bill_store[sid].chat_history) = 2
          /\ bill_store[sid].chat_history[1].role = "model"
          /\ bill_store[sid].chat_history[2] = Entry("model", response.message)

\* C4: when the collaborator fails during a chat or start turn, the turn is
\* reported as an error and the store is left exactly as it was before the
\* turn: no session's chat_history, final_assessment, bill_data or
\* discrepancies changes.
C4_FailedTurnLeavesSession ==
    [][\A t \in Tasks, o \in Outcomes :
          (TurnReturn(t, o) /\ o.kind \in FailureKinds)
          => /\ response'.status \in {ServerError, Unavailable}
             /\ bill_store' = bill_store]_vars

C4_Witness ==
    /\ response.op = "chat"
    /\ response.status = ServerError
    /\ \E sid \in DOMAIN bill_store :
          /\ bill_store[sid].final_assessment # NoAssessment
          /\ Len(bill_store[sid].chat_history) = 1

\* C5: after any chat turn, the empty-message start turn included, whose
\* reply embeds a completion block that parses, the session's
\* final_assessment is the parsed block.
C5_ParsedBlockIsStored ==
    [][\A t \in Tasks, o \in Outcomes :
          (TurnReturn(t, o) /\ o.kind = "text"
           /\ ParseAssessment(o.text) # NoAssessment)
          => bill_store'[loc[t].sid].final_assessment = ParseAssessment(o.text)]_vars

\* C6: a reply whose embedded completion block is malformed is treated as
\* plain text: the turn succeeds, its entries are appended as for any other
\* reply, the returned assessment is null and final_assessment keeps its
\* value.
C6_MalformedBlockIsPlainText ==
    [][\A t \in Tasks, o \in Outcomes :
          (TurnReturn(t, o) /\ o.kind = "text" /\ MalformedBlock(o.text))
          => /\ response'.status = Ok
             /\ response'.message = o.text
             /\ response'.assessment = NoAssessment
             /\ bill_store'[loc[t].sid].chat_history =
                    bill_store[loc[t].sid].chat_history
                    \o (IF loc[t].user_message # <<>>
                        THEN <<Entry("user", loc[t].user_message)>> ELSE <<>>)
                    \o <<Entry("model", o.text)>>
             /\ bill_store'[loc[t].sid].final_assessment
                    = bill_store[loc[t].sid].final_assessment]_vars

C6_Witness ==
    /\ response.status = Ok
    /\ response.message = ReplyMalformed
    /\ response.assessment = NoAssessment
    /\ \E sid \in DOMAIN bill_store :
          /\ bill_store[sid].final_assessment # NoAssessment
          /\ Len(bill_store[sid].chat_history) >= 2
          /\ bill_store[sid].chat_history[Len(bill_store[sid].chat_history)]
                 = Entry("model", ReplyMalformed)

\* C7: requests on one session do not interleave.  While a turn is between
\* its read of the session and its write, the session's chat_history,
\* discrepancies and bill_data are what the turn read and no other turn is
\* pending; and in every chat_history a user entry is immediately followed by
\* a model entry.
C7_RequestsAreSerial ==
    /\ \A t \in Tasks :
          pc[t] = "calling"
          => /\ loc[t].sid \in DOMAIN bill_store
             /\ BuildContents(bill_store[loc[t].sid].chat_history,
                              loc[t].user_message) = loc[t].contents
             /\ bill_store[loc[t].sid].discrepancies = loc[t].discrepancies
             /\ bill_store[loc[t].sid].bill_data = loc[t].bill_data
             /\ \A u \in Tasks : pc[u] = "calling" => u = t
    /\ \A sid \in DOMAIN bill_store :
          \A i \in 1..Len(bill_store[sid].chat_history) :
             bill_store[sid].chat_history[i].role = "user"
             => /\ i < Len(bill_store[sid].chat_history)
                /\ bill_store[sid].chat_history[i + 1].role = "model"

C7_Witness ==
    \E t \in Tasks :
       /\ pc[t] = "calling"
       /\ loc[t].sid \in confirmed
       /\ loc[t].user_message # <<>>
       /\ bill_store[loc[t].sid].discrepancies # <<>>
       /\ bill_store[loc[t].sid].chat_history # <<>>

\* The session and the response of confirming bill_data on a session id once
\* more, right after a step.
ConfirmAgainStore(sid, bill_data) ==
    ConfirmStore(bill_store'[sid], bill_data,
                 Detection[bill_data, cache', db_mode', json_mode'])

ConfirmAgainResponse(bill_data) ==
    ConfirmResponse(Detection[bill_data, cache', db_mode', json_mode'])

\* C8: confirming the same bill data twice in a row on a session, with the
\* reference data unchanged, leaves the session as the first confirmation
\* left it, and the second call returns the findings and the total_savings
\* of the first.
C8_ConfirmTwiceIsConfirmOnce ==
    [][\A sid \in DOMAIN bill_store, bill_data \in ConfirmBills :
          (/\ response'.op = "confirm"
           /\ response'.status # NotFoundStatus
           /\ bill_store'[sid].bill_data = bill_data
           /\ ConfirmBill(sid, bill_data))
          => /\ ConfirmAgainStore(sid, bill_data) = bill_store'[sid]
             /\ ConfirmAgainResponse(bill_data) = response']_vars

C8_Witness ==
    /\ response.op = "confirm"
    /\ response.status = Ok
    /\ response.total_savings > 0
    /\ \E sid \in confirmed :
          /\ bill_store[sid].bill_data = BillDup
          /\ bill_store[sid].discrepancies = response.discrepancies
          /\ Len(response.discrepancies) > 1
          /\ bill_store[sid].chat_history # <<>>

\* C9: a session that upload has just created has no discrepancies, no
\* chat_history and no final_assessment, and the discrepancies of a session
\* stay empty in every state before its first confirm.
C9_EmptyUntilConfirmed ==
    /\ \A sid \in DOMAIN bill_store \ confirmed :
          bill_store[sid].discrepancies = <<>>
    /\ (response.op = "upload" /\ response.status = Ok)
       => /\ response.session_id \in DOMAIN bill_store
          /\ bill_store[response.session_id].discrepancies = <<>>
          /\ bill_store[response.session_id].chat_history = <<>>
          /\ bill_store[response.session_id].final_assessment = NoAssessment

C9_Witness ==
    /\ response.op \in {"results", "preview", "send"}
    /\ response.status = Ok
    /\ \E sid \in DOMAIN bill_store \ confirmed :
          /\ bill_store[sid].chat_history # <<>>
          /\ bill_store[sid].discrepancies = <<>>
          /\ DetectStored(sid) # <<>>

\* C10: chat_history is append-only: in every step the chat_history of each
\* session is a prefix of its chat_history after the step.
C10_HistoryIsAppendOnly ==
    [][\A sid \in DOMAIN bill_store :
          /\ sid \in DOMAIN bill_store'
          /\ IsPrefix(bill_store[sid].chat_history,
                      bill_store'[sid].chat_history)]_vars

C10_Witness ==
    /\ response.op = "confirm"
    /\ response.status = Ok
    /\ \E sid \in confirmed :
          /\ bill_store[sid].discrepancies # <<>>
          /\ Len(bill_store[sid].chat_history) >= 2


---------------------------------------------------------------------------
(* Reading handlers and session isolation (main.py).                       *)

ReadingOps == {"results", "preview", "send"}

\* C11: a step that answers a results query, a dispute preview or a dispute
\* send leaves every session as it was (bill_data, discrepancies,
\* chat_history and final_assessment), whether the request succeeds, is
\* refused, or fails in one of its collaborators.
C11_ReadingHandlersLeaveStore ==
    [][response'.op \in ReadingOps => bill_store' = bill_store]_vars

\* A dispute send failed in the email collaborator while a confirmed session
\* with findings and a conversation is in the store, and a dispute preview
\* could be answered from it.
C11_Witness ==
    /\ response.op = "send"
    /\ response.status = ServerError
    /\ \E sid \in confirmed :
           /\ bill_store[sid].discrepancies # <<>>
           /\ bill_store[sid].chat_history # <<>>
           /\ ReadOnlyResponse("preview", sid, FALSE).status = Ok

\* The sessions a step leaves as they were.
Untouched == {s \in DOMAIN bill_store : s \in DOMAIN bill_store' /\ bill_store'[s] = bill_store[s]}

\* C12: an operation on one session leaves every other session unchanged. No
\* step removes a session or changes two of them; the return of a chat or
\* start turn changes at most the session of the turn, and a confirmation at
\* most the session it names, in every order in which the requests on the
\* sessions are served.
C12_OtherSessionsUnchanged ==
    [][bill_store' = bill_store \/
       /\ Cardinality(DOMAIN bill_store \ Untouched) <= 1
       /\ \A t \in Tasks :
              pc[t] = "calling" /\ pc'[t] = "idle"
                  => DOMAIN bill_store \ {loc[t].sid} \subseteq Untouched
       /\ response'.op = "confirm"
              => \A sid \in SessionArgs, bill_data \in ConfirmBills :
                     ConfirmBill(sid, bill_data)
                         => DOMAIN bill_store \ {sid} \subseteq Untouched
       /\ response'.op \in {"upload"} \cup ReadingOps
              => DOMAIN bill_store = Untouched]_vars

\* Two sessions: the later one was confirmed, with findings, and has a
\* conversation; the earlier one is as its upload left it.
C12_Witness ==
    \E s1, s2 \in DOMAIN bill_store :
        /\ s2 < s1
        /\ s1 \in confirmed
        /\ bill_store[s1].discrepancies # <<>>
        /\ bill_store[s1].chat_history # <<>>
        /\ s2 \notin confirmed
        /\ bill_store[s2].chat_history = <<>>
        /\ bill_store[s2].discrepancies = <<>>

\* C13: a successful upload creates its session under an id that no earlier
\* upload received and that is not in the store; the sessions that exist stay
\* as they are. Uploads that run concurrently meet only at the await of line
\* 193, before the counter is read; the rest of the handler is one step.
C13_UploadTakesFreshId ==
    [][response'.op = "upload" /\ response'.status = Ok
           => /\ response'.session_id \notin DOMAIN bill_store
              /\ response'.session_id \notin 1..session_counter
              /\ DOMAIN bill_store' = DOMAIN bill_store \cup {response'.session_id}
              /\ DOMAIN bill_store = Untouched]_vars

\* The second upload was answered with session 2 while session 1, confirmed
\* in between, kept its bill and its findings.
C13_Witness ==
    /\ response.op = "upload"
    /\ response.status = Ok
    /\ response.session_id = 2
    /\ DOMAIN bill_store = {1, 2}
    /\ 1 \in confirmed
    /\ bill_store[1].discrepancies # <<>>

---------------------------------------------------------------------------
(* The checks of the Discrepancy Detection Engine (discrepancy.py), called  *)
(* directly.                                                               *)

\* The call of fn has returned or raised.
Done(fn) == call.fn = fn /\ call.done

\* The key of a line item as the duplicate check is described: the code, the
\* description in lower case without surrounding blanks, the date of service.
ItemKey(item) ==
    <<Get(item.code, NullS),
      IF item.description.st = "val"
      THEN Strip(MapStr(Lower, item.description.v)) ELSE <<>>,
      Get(item.date_of_service, NullD)>>

\* The first position (from 1) of the key of item i.
FirstWithKey(items, i) ==
    CHOOSE j \in 1..i :
        /\ ItemKey(items[j]) = ItemKey(items[i])
        /\ \A k \in 1..(j - 1) : ItemKey(items[k]) # ItemKey(items[i])

\* What a finding says beyond its fixed texts.
Stated(f) ==
    [type |-> f.type, items_involved |-> f.items_involved,
     potential_overcharge |-> f.potential_overcharge]

RECURSIVE ExpectedDuplicates(_, _)
\* One duplicate_charge finding per item, from item i on, whose key an
\* earlier item has: the 0-based positions of the first item with the key and
\* of the item, and the item's charge.
ExpectedDuplicates(items, i) ==
    IF i > Len(items) THEN <<>>
    ELSE (IF FirstWithKey(items, i) < i
          THEN <<[type |-> "duplicate_charge",
                  items_involved |-> <<FirstWithKey(items, i) - 1, i - 1>>,
                  potential_overcharge |-> GetDefault(items[i].total_charge, 0)]>>
          ELSE <<>>)
         \o ExpectedDuplicates(items, i + 1)

DuplicatesAsDescribed ==
    /\ ~call.raised
    /\ [k \in 1..Len(call.out) |-> Stated(call.out[k])]
           = ExpectedDuplicates(call.arg.line_items, 1)

\* C14: for every bill the duplicate check returns exactly one
\* duplicate_charge finding for each line item whose key (code, lower-cased
\* trimmed description, date of service) an earlier item has, and no other;
\* the finding names the first item with that key and the current one, and
\* its potential overcharge is the current item's charge.
C14_DuplicateFindings ==
    Done("_check_duplicates") => DuplicatesAsDescribed

\* On the bills on which the check returns, its findings are the described
\* ones.
DuplicatesDescribedOnReturn ==
    Done("_check_duplicates") /\ ~call.raised => DuplicatesAsDescribed

\* The reference of the code of a line item, if the item has a code.
Resolved(item) ==
    IF TruthyS(Get(item.code, NullS))
    THEN get_fee_info(Strip(item.code.v), cache, db_mode, json_mode).ref
    ELSE NotFound

\* The item has a charge other than zero.
Charged(item) == TruthyN(GetDefault(item.total_charge, 0))

\* The severity of a charge against a high price as the check is described,
\* on the amounts themselves: none up to the high price, medium up to one
\* and a half times the high price, high above.
DescribedSeverity(charge, high_price) ==
    IF charge <= high_price THEN "none"
    ELSE IF 2 * charge > 3 * high_price THEN "high" ELSE "medium"

RECURSIVE ExpectedInflation(_, _)
ExpectedInflation(items, i) ==
    IF i > Len(items) THEN <<>>
    ELSE (IF /\ Resolved(items[i]).found
             /\ Charged(items[i])
             /\ DescribedSeverity(items[i].total_charge.v,
                                  Resolved(items[i]).high_price) # "none"
          THEN <<[type |-> "price_inflation",
                  severity |-> DescribedSeverity(items[i].total_charge.v,
                                                 Resolved(items[i]).high_price),
                  items_involved |-> <<i - 1>>,
                  potential_overcharge |->
                      Val(items[i].total_charge.v - Resolved(items[i]).high_price)]>>
          ELSE <<>>)
         \o ExpectedInflation(items, i + 1)

InflationAsDescribed ==
    /\ ~call.raised
    /\ [k \in 1..Len(call.out) |->
            [type |-> call.out[k].type, severity |-> call.out[k].severity,
             items_involved |-> call.out[k].items_involved,
             potential_overcharge |-> call.out[k].potential_overcharge]]
           = ExpectedInflation(call.arg.line_items, 1)

\* C15: the inflation check returns, for each line item with a code that
\* resolves and a charge other than zero, exactly one price_inflation finding:
\* severity high when the charge is above 1.5 times the high price, medium
\* when it is above the high price and at most 1.5 times the high price, none
\* when it is at most the high price; the potential overcharge is the charge
\* less the high price. Items without a code, without a charge or with an
\* unresolved code get no finding.
C15_PriceInflationFindings ==
    Done("_check_price_inflation") => InflationAsDescribed

\* A charge of exactly one and a half times the high price of its code.
OnBoundary(item) ==
    /\ Resolved(item).found
    /\ Charged(item)
    /\ 2 * item.total_charge.v = 3 * Resolved(item).high_price

\* Off that boundary the findings of the check are the described ones.
InflationDescribedOffBoundary ==
    Done("_check_price_inflation")
        /\ (\A i \in 1..Len(call.arg.line_items) : ~OnBoundary(call.arg.line_items[i]))
        => InflationAsDescribed

RECURSIVE ChargesInCents(_, _)
\* The sum of the charges of the items from i on, in cents; an item without a
\* charge counts 0.
ChargesInCents(items, i) ==
    IF i > Len(items) THEN 0
    ELSE (IF items[i].total_charge.st = "val" THEN items[i].total_charge.v ELSE 0)
         + ChargesInCents(items, i + 1)

\* The distance of two amounts in cents.
Distance(a, b) == IF a < b THEN b - a ELSE a - b

\* The math_error finding as the check is described, on the amounts
\* themselves: for a stated total and at least one item, when the sum of the
\* charges is more than 1.00 away from the total.
ExpectedMathError(bill_data) ==
    IF /\ bill_data.total_billed.st = "val"
       /\ bill_data.line_items # <<>>
       /\ Distance(ChargesInCents(bill_data.line_items, 1),
                   bill_data.total_billed.v) > Tolerance
    THEN <<[type |-> "math_error", items_involved |-> <<>>,
            potential_overcharge |->
                Val(IF ChargesInCents(bill_data.line_items, 1)
                           < bill_data.total_billed.v
                    THEN bill_data.total_billed.v
                             - ChargesInCents(bill_data.line_items, 1)
                    ELSE 0)]>>
    ELSE <<>>

MathErrorAsDescribed ==
    /\ ~call.raised
    /\ [k \in 1..Len(call.out) |-> Stated(call.out[k])] = ExpectedMathError(call.arg)

\* C16: whenever the arithmetic check returns, it returns exactly one
\* math_error finding if the bill states a total, has at least one line item,
\* and the sum of the charges differs from the total by more than 1.00, and
\* none otherwise, a difference of 1.00 or less being tolerated. The finding
\* names no item; its potential overcharge is the stated total less the sum
\* when the sum is below the total, and 0 otherwise.
C16_MathErrorFinding ==
    Done("_check_math_errors") /\ ~call.raised => MathErrorAsDescribed

\* The sum of the charges is exactly 1.00 away from the stated total.
OnTolerance(bill_data) ==
    /\ bill_data.total_billed.st = "val"
    /\ Distance(ChargesInCents(bill_data.line_items, 1),
                bill_data.total_billed.v) = Tolerance

\* Off that distance the finding of a check that returns is the described
\* one.
MathErrorDescribedOffTolerance ==
    Done("_check_math_errors") /\ ~call.raised /\ ~OnTolerance(call.arg)
        => MathErrorAsDescribed

\* C17: for every bill with zero line items, whatever its stated total, the
\* engine returns the empty finding list.
C17_NoItemsNoFindings ==
    Done("detect_discrepancies") /\ call.arg.line_items = <<>>
        => ~call.raised /\ call.out = <<>>

\* The engine has returned for a bill without line items that states a
\* total of 151.00.
C17_Witness ==
    /\ Done("detect_discrepancies")
    /\ call.arg = Bill(Val(15100), <<>>)
    /\ ~call.raised

\* C18: the engine never raises on a partially populated bill, one in which
\* code, description, quantity, total_charge, date_of_service or total_billed
\* is missing or null: every call of detect_discrepancies returns a finding
\* list.
C18_EngineNeverRaises ==
    Done("detect_discrepancies") => ~call.raised

\* The engine returns on the bills whose items have a description and
\* neither a null quantity nor a null charge; their code, quantity, date and
\* stated total may be absent or null.
EngineReturnsOnDescribedItems ==
    Done("detect_discrepancies")
        /\ (\A i \in 1..Len(call.arg.line_items) :
                call.arg.line_items[i] \in {ItemVisit, ItemVisitAgain, ItemShot})
        => ~call.raised

---------------------------------------------------------------------------
(* The resolver (database.py), called directly.                            *)

\* data.db can be read and holds a fee other than zero for the code.
PrimaryYields(code) ==
    /\ db_mode = "ok"
    /\ \E r \in fee_schedule :
           r.hcpcs = code /\ (r.non_fac_fee > 0 \/ r.fac_fee > 0)

\* The entry of the JSON file for the code, as a result of the resolver.
SecondaryEntry(data, code) ==
    [found |-> TRUE, description |-> data[code].description,
     avg_price |-> data[code].avg_price, high_price |-> data[code].high_price]

\* C19: get_fee_info returns the result of the primary store whenever that
\* store yields a price pair; otherwise (code absent from it, no fee other
\* than zero, table missing, access error) it returns the entry of the
\* secondary store with avg_price and high_price as they are in the file; it
\* returns not-found only when neither store has the code. The result is
\* never a mix of the two stores.
C19_PrimaryThenSecondary ==
    Done("get_fee_info") =>
        /\ ~call.raised
        /\ IF PrimaryYields(call.arg.code)
           THEN call.out.found /\ call.out = QueryFeeSchedule(call.arg.code)
           ELSE /\ cache.loaded
                /\ call.out =
                       IF call.arg.code \in DOMAIN cache.data
                       THEN SecondaryEntry(cache.data, call.arg.code)
                       ELSE NotFound

\* The resolver was asked for a code that data.db holds with zero fees only
\* and answered with the entry of the JSON file.
C19_Witness ==
    /\ Done("get_fee_info")
    /\ call.arg.code = CodeB2
    /\ db_mode = "ok"
    /\ call.out = SecondaryEntry(reference_prices_json, CodeB2)

\* A valid price pair.
ValidPair(ref) == ref.avg_price > 0 /\ ref.high_price >= ref.avg_price

\* C20: every reference get_fee_info returns has avg_price > 0 and
\* high_price >= avg_price; a candidate with a value of zero or less is
\* reported as not found.
C20_ReturnedPairIsValid ==
    Done("get_fee_info") /\ call.out.found => ValidPair(call.out)

\* The results that come from data.db are valid pairs.
PrimaryPairIsValid ==
    Done("get_fee_info") /\ PrimaryYields(call.arg.code) => ValidPair(call.out)

\* C21: get_fee_info never raises to its caller. An access error in the
\* primary store counts as not-found for that store and the secondary store
\* is still consulted: the result is its entry, or not-found without one. An
\* error in the secondary store (a file that does not parse) yields
\* not-found.
C21_ResolverNeverRaises ==
    Done("get_fee_info") =>
        /\ ~call.raised
        /\ db_mode = "error" =>
               /\ cache.loaded
               /\ call.out =
                      IF call.arg.code \in DOMAIN cache.data
                      THEN SecondaryEntry(cache.data, call.arg.code)
                      ELSE NotFound
        /\ ~PrimaryYields(call.arg.code) /\ json_mode = "corrupt"
               /\ cache.data = EmptyDict
               => call.out = NotFound

\* data.db could not be read and the resolver answered with the entry of the
\* JSON file.
C21_Witness ==
    /\ Done("get_fee_info")
    /\ db_mode = "error"
    /\ json_mode = "ok"
    /\ ~call.raised
    /\ call.out = SecondaryEntry(reference_prices_json, CodeA1)

---------------------------------------------------------------------------
(* Codes on their way to the resolver (main.py, discrepancy.py).           *)

\* A code in normal form: at most 5 characters, no dash, dot or blank, no
\* whitespace at either end, no lower-case letter.
InNormalForm(s) ==
    /\ Len(s) <= CodeLen
    /\ \A i \in 1..Len(s) : s[i] \notin {"-", ".", " "} /\ Upper(s[i]) = s[i]
    /\ s # <<>> => s[1] \notin Whitespace /\ s[Len(s)] \notin Whitespace

\* The reference of a code against the stores as they are.
Reference(code) == get_fee_info(code, cache, db_mode, json_mode).ref

\* C22: every code the price-inflation check passes to get_fee_info is in
\* normal form, as the codes of enrichment are, so that the code of a line
\* item resolves to the same reference in enrichment and in detection.
C22_PassedCodesAreNormalized ==
    Done("_check_price_inflation") =>
        \A i \in 1..Len(call.arg.line_items) :
            TruthyS(call.arg.line_items[i].code) =>
                /\ InNormalForm(inflation_code(call.arg.line_items[i]))
                /\ InNormalForm(enrichment_code(call.arg.line_items[i]))
                /\ Reference(inflation_code(call.arg.line_items[i]))
                       = Reference(enrichment_code(call.arg.line_items[i]))

\* The codes enrichment passes are in normal form.
EnrichmentCodesAreNormalized ==
    Done("_check_price_inflation") =>
        \A i \in 1..Len(call.arg.line_items) :
            TruthyS(call.arg.line_items[i].code) =>
                InNormalForm(enrichment_code(call.arg.line_items[i]))

\* C23: resolving the same code twice against unchanged stores returns the
\* same result, the same avg_price and high_price or not-found both times;
\* the first lookup, which may fill the cache of the JSON file, leaves
\* nothing behind that changes the second.
C23_SecondLookupIsTheSame ==
    call.fn = "get_fee_info" /\ call.repeated => call.again = call.out

\* A code was resolved twice from the JSON file, which the first lookup
\* loaded into the cache.
C23_Witness ==
    /\ call.fn = "get_fee_info"
    /\ call.repeated
    /\ db_mode = "no_table"
    /\ json_mode = "ok"
    /\ call.again = SecondaryEntry(reference_prices_json, CodeB2)

---------------------------------------------------------------------------
(* The stages of a session (main.py:219-289).                              *)

\* The sessions a chat or start turn has been processed on, or is being
\* processed on.
Interviewed ==
    {sid \in DOMAIN bill_store :
        \/ bill_store[sid].chat_history # <<>>
        \/ \E t \in Tasks : pc[t] = "calling" /\ loc[t].sid = sid}

\* C24: a session is interviewed only after it was confirmed: no chat turn
\* and no start turn is processed on a session before its first confirm.
C24_NoTurnBeforeConfirmation ==
    Interviewed \subseteq confirmed

\* Once confirmed, a session stays in the store with the findings of the
\* engine stored: no step takes it back to the stage of an upload.
ConfirmedIsNotUndone ==
    [][\A sid \in confirmed :
          /\ sid \in confirmed'
          /\ sid \in DOMAIN bill_store'
          /\ bill_store'[sid].bill_data \in ConfirmBills]_vars

---------------------------------------------------------------------------
(* Enrichment (main.py:143-183).                                           *)

\* The reference enrichment has for an item: that of its normalized code, or
\* none when the item has no code or its normalized code is empty.
EnrichmentReference(item) ==
    IF TruthyS(item.code) /\ normalize_code(item.code) # <<>>
    THEN Reference(normalize_code(item.code))
    ELSE NotFound

\* The quantity of an item, a missing, null or zero quantity counted as 1.
CountedQuantity(item) ==
    IF item.quantity.st = "val" /\ item.quantity.v # 0 THEN item.quantity.v ELSE 1

EnrichmentFields == {"expected_charge", "expected_charge_per_unit", "high_price_per_unit"}

\* The item after enrichment carries the three fields, all null or all set
\* from the reference, and is otherwise the item before.
EnrichedAsDescribed(item, enriched) ==
    /\ \A f \in DOMAIN item \ EnrichmentFields : enriched[f] = item[f]
    /\ \A f \in EnrichmentFields : enriched[f].st \in {"null", "val"}
    /\ \/ \A f \in EnrichmentFields : enriched[f].st = "null"
       \/ \A f \in EnrichmentFields : enriched[f].st = "val"
    /\ IF EnrichmentReference(item).found /\ EnrichmentReference(item).avg_price > 0
       THEN /\ enriched.expected_charge_per_unit = Val(EnrichmentReference(item).avg_price)
            /\ enriched.high_price_per_unit = Val(EnrichmentReference(item).high_price)
            /\ enriched.expected_charge
                   = Val(EnrichmentReference(item).avg_price * CountedQuantity(item))
       ELSE \A f \in EnrichmentFields : enriched[f] = NullN

\* C25: enrichment returns for every bill, whether its codes resolve or not,
\* and leaves on every line item the three enrichment fields: all null when
\* the item has no code, an empty normalized code or no reference with a
\* positive avg_price; otherwise expected_charge_per_unit = avg_price,
\* high_price_per_unit = high_price and expected_charge = avg_price times
\* the quantity, a missing or zero quantity counted as 1.
C25_EnrichmentFields ==
    Done("enrich_line_items_with_reference_prices") =>
        /\ ~call.raised
        /\ Len(call.out) = Len(call.arg.line_items)
        /\ \A i \in 1..Len(call.out) :
               EnrichedAsDescribed(call.arg.line_items[i], call.out[i])

\* A bill was enriched whose first item has a zero quantity and a reference
\* and whose second item has a code that does not resolve.
C25_Witness ==
    /\ Done("enrich_line_items_with_reference_prices")
    /\ Len(call.out) >= 2
    /\ call.arg.line_items[1] = ItemZeroQuantity
    /\ call.out[1].expected_charge = call.out[1].expected_charge_per_unit
    /\ call.out[1].expected_charge.st = "val"
    /\ call.arg.line_items[2] = ItemDash
    /\ call.out[2].expected_charge = NullN

\* The bill of the session an upload has just created carries on every item
\* the three fields, all null or all set.
UploadedItemsCarryFields ==
    (response.op = "upload" /\ response.status = Ok) =>
        \A i \in 1..Len(bill_store[response.session_id].bill_data.line_items) :
            \/ \A f \in EnrichmentFields :
                  bill_store[response.session_id].bill_data.line_items[i][f].st = "null"
            \/ \A f \in EnrichmentFields :
                  bill_store[response.session_id].bill_data.line_items[i][f].st = "val"

---------------------------------------------------------------------------
(* Overcharges and savings (discrepancy.py, main.py:231-239).              *)

\* A bill whose charges and stated total, where present, are amounts >= 0.
NonNegativeBill(bill_data) ==
    /\ bill_data.total_billed.st = "val" => bill_data.total_billed.v >= 0
    /\ \A i \in 1..Len(bill_data.line_items) :
          /\ bill_data.line_items[i].total_charge.st # "null"
          /\ bill_data.line_items[i].total_charge.v >= 0

NonNegativeFindings(discrepancies) ==
    \A i \in 1..Len(discrepancies) :
        /\ discrepancies[i].potential_overcharge.st = "val"
        /\ discrepancies[i].potential_overcharge.v >= 0

\* The sum of the potential_overcharge of the findings.
OverchargeSum(discrepancies) ==
    SumSeq(LAMBDA d : d.potential_overcharge.v, discrepancies, 1)

SavingsOps == {"confirm", "results", "preview"}

\* C26: the bills the sessions hold have non-negative charges and totals,
\* and every finding stored for them has potential_overcharge >= 0; the
\* total_savings that confirm, results and dispute preview report is >= 0
\* and is the sum of the potential_overcharge of the findings stored for
\* the session.
C26_SavingsAreTheSumOfOvercharges ==
    /\ \A sid \in DOMAIN bill_store :
          NonNegativeBill(bill_store[sid].bill_data)
          => NonNegativeFindings(bill_store[sid].discrepancies)
    /\ (response.op \in SavingsOps /\ response.status = Ok)
       => /\ response.total_savings >= 0
          /\ \E sid \in DOMAIN bill_store :
                /\ NonNegativeBill(bill_store[sid].bill_data)
                /\ bill_store[sid].discrepancies = response.discrepancies
                /\ response.total_savings = OverchargeSum(bill_store[sid].discrepancies)

\* Results or a preview reported savings above zero for a session whose
\* findings include one of medium severity with an overcharge above zero.
C26_Witness ==
    /\ response.op \in {"results", "preview"}
    /\ response.status = Ok
    /\ response.total_savings > 0
    /\ \E i \in 1..Len(response.discrepancies) :
          /\ response.discrepancies[i].severity = "medium"
          /\ response.discrepancies[i].potential_overcharge.v > 0

\* The findings the engine returns for a bill with non-negative charges and
\* total have potential_overcharge >= 0.
EngineOverchargesNonNegative ==
    (Done("detect_discrepancies") /\ ~call.raised /\ NonNegativeBill(call.arg))
    => NonNegativeFindings(call.out)

---------------------------------------------------------------------------
(* The life of a session (main.py:61-63, 208-214).                         *)

\* The step is the answer of handler op to a request that names session sid.
Answers(op, sid) ==
    /\ response'.op = op
    /\ CASE op = "confirm" -> \E bill_data \in ConfirmBills : ConfirmBill(sid, bill_data)
         [] op = "chat" -> \E t \in Tasks, m \in UserMessages : ChatCall(t, sid, m)
         [] op = "start" -> \E t \in Tasks : StartCall(t, sid)
         [] op = "results" -> GetResults(sid)
         [] op = "preview" -> \E failed \in BOOLEAN : DisputePreview(sid, failed)
         [] op = "send" -> \E failed \in BOOLEAN : DisputeSend(sid, failed)

SessionOps == {"confirm", "chat", "start", "results", "preview", "send"}

\* C27: a session, once created, is never removed or replaced: in every step
\* each session of the store is still in the store afterwards, a step that
\* creates a session leaves it as it was, and no handler answers a request
\* that names it with "Session not found".
C27_SessionsStay ==
    [][\A sid \in DOMAIN bill_store :
          /\ sid \in DOMAIN bill_store'
          /\ session_counter' # session_counter => bill_store'[sid] = bill_store[sid]
          /\ response'.status = NotFoundStatus
             => \A op \in SessionOps : ~Answers(op, sid)]_vars

\* The first session was confirmed and interviewed, a second session was
\* created after it, and a dispute of the first one was sent.
C27_Witness ==
    /\ session_counter >= 2
    /\ 1 \in confirmed
    /\ bill_store[1].chat_history # <<>>
    /\ response.op = "send"
    /\ response.status = Ok

---------------------------------------------------------------------------
(* What a confirmation leaves alone (main.py:219-239, 319-328).            *)

\* C28: confirm_bill changes bill_data and discrepancies only: the
\* chat_history and the final_assessment of the session are after the
\* confirmation what they were before it, whatever bill they were produced
\* against; a later chat or start turn sends the stored chat_history to the
\* collaborator and a later dispute preview answers with the stored
\* final_assessment.
C28_ConfirmKeepsConversation ==
    [][\A sid \in DOMAIN bill_store :
          /\ Answers("confirm", sid)
             => /\ bill_store'[sid].chat_history = bill_store[sid].chat_history
                /\ bill_store'[sid].final_assessment = bill_store[sid].final_assessment
                /\ \A other \in DOMAIN bill_store \ {sid} :
                       bill_store'[other] = bill_store[other]
          /\ \A t \in Tasks :
                (pc[t] = "idle" /\ pc'[t] = "calling" /\ loc'[t].sid = sid)
                => IsPrefix(bill_store[sid].chat_history, loc'[t].contents)
          /\ (Answers("preview", sid) /\ response'.status = Ok)
             => response'.assessment = bill_store[sid].final_assessment]_vars

\* A confirmation with findings was answered on a session that holds a
\* transcript and an assessment from its interview.
C28_Witness ==
    /\ response.op = "confirm"
    /\ response.status = Ok
    /\ response.discrepancies # <<>>
    /\ \E sid \in confirmed :
          /\ bill_store[sid].discrepancies = response.discrepancies
          /\ bill_store[sid].chat_history # <<>>
          /\ bill_store[sid].final_assessment # NoAssessment

---------------------------------------------------------------------------
(* Uploads that fail (main.py:186-216).                                    *)

\* C29: a step that ends in the answer of a failed upload creates no
\* session, leaves the sessions of the store as they are and leaves the
\* counter alone; no session id is ever used up without a session, so that
\* the ids of the store are 1..session_counter and the next upload that
\* succeeds takes the id that follows the last session.
C29_FailedUploadLeavesNoTrace ==
    [][/\ (response'.op = "upload" /\ response'.status # Ok)
          => /\ bill_store' = bill_store
             /\ session_counter' = session_counter
       /\ DOMAIN bill_store' = 1..session_counter'
       /\ (response'.op = "upload" /\ response'.status = Ok)
          => /\ response'.session_id = session_counter + 1
             /\ DOMAIN bill_store' = DOMAIN bill_store \cup {session_counter + 1}]_vars

\* An upload was answered with status 500, as one is that fails in
\* extraction or in the detection run on the enriched bill, while the store
\* held a confirmed session with a transcript.
C29_Witness ==
    /\ response.op = "upload"
    /\ response.status = ServerError
    /\ cache.loaded
    /\ session_counter = 1
    /\ 1 \in confirmed
    /\ bill_store[1].chat_history # <<>>

---------------------------------------------------------------------------
(* normalize_code (main.py:129-140).                                       *)

\* C30: normalize_code returns a code in normal form, at most 5 characters
\* with no dash, dot or blank, no whitespace at either end and no
\* lower-case letter, and normalizing the result again returns it unchanged.
C30_NormalFormAndIdempotent ==
    Done("normalize_code") =>
        /\ InNormalForm(call.out)
        /\ normalize_code(Val(call.out)) = call.out

\* The result has at most 5 characters, none of them a dash, a dot, a blank
\* or a lower-case letter.
NormalizedLengthAndCharacters ==
    Done("normalize_code") =>
        /\ Len(call.out) <= CodeLen
        /\ \A i \in 1..Len(call.out) :
               call.out[i] \notin {"-", ".", " "} /\ Upper(call.out[i]) = call.out[i]

\* Codes that are clean after strip(): no whitespace next to a separator at
\* an end, and none at the cut after the fifth character.
NormalizedWithoutInnerTab ==
    (Done("normalize_code") /\ \A i \in 1..Len(call.arg.code.v) : call.arg.code.v[i] # Tab)
    => /\ InNormalForm(call.out)
       /\ normalize_code(Val(call.out)) = call.out

=============================================================================
